---- MODULE Spec2Model ----
(***************************************************************************)
(* Reconciliation engine of syncCalendarWithSheet.js: one course table,    *)
(* its status ledger (_StatusLog_<sheet>), the two target calendars and    *)
(* the run of processSheet over them.                                      *)
(*                                                                         *)
(* Conventions.  Empty cells are 0 (numbers and ids), "" (texts) or <<>>   *)
(* (token).  Sheet row numbers are those of the code: row 1 is the header, *)
(* data row k of a sequence is sheet row k + 1.  A date cell is the        *)
(* instant of midnight of that day in the spreadsheet's timezone, counted  *)
(* in half days, so day n is the instant 2n.  The ledger sequence holds    *)
(* the rows up to the last row with content, as getLastRow() sees them.    *)
(***************************************************************************)
EXTENDS Integers, Sequences, FiniteSets, TLC

\* ---------------------------------------------------------------- bounds
MaxRows == 2      \* rows of the course table
MaxIds == 3       \* record ids generateRecordId hands out in a behaviour
MaxEvents == 4    \* calendar events created in a behaviour
MaxFail == 1      \* provider call sites that fail in a behaviour
MaxEdits == 2     \* changes to the table or the calendars, and provider failures, in a behaviour
MaxTables == 2    \* tables listed in _SheetConfig

\* ------------------------------------------------------- program values
CONFIG_TIMEZONE == "Asia/Shanghai"
Timezones == {"Asia/Shanghai", "America/New_York"}
Lessons == {1, 2}
Dates == {4, 6}
Titles == {"Algebra", "Geometry"}
Bindings == {"teacher", "student"}

STATUS_PROCESSING == "processing"     \* '处理中'
STATUS_COMPLETED == "completed"       \* '已完成'
STATUS_PARTIAL == "partial-failure"   \* '部分失败'
STATUS_FAILED == "failed"             \* '失败'
MAIL_SENT == "sent"                   \* '已发送'
MAIL_UNSENT == "unsent"               \* '未发送'
ERR_MAIL == "mail error"              \* error.message of a failed sendCourseEmail
ERR_EVENT == "event error"            \* error.message of a failed createOrUpdateCalendarEvent

\* an event id cell holds 0 when empty, the number of the event, or a status
\* text that an earlier version left there: a negative number stands for it
LABEL_SENT == -1                      \* '已发送' in an event id cell
LABEL_COMPLETED == -2                 \* '已完成' in an event id cell
invalidStatusTexts == {LABEL_SENT, LABEL_COMPLETED}

MAX_RETRIES == 3        \* CONFIG.RATE_LIMIT.MAX_RETRIES
RETRY_DELAY == 2000     \* CONFIG.RATE_LIMIT.RETRY_DELAY, milliseconds

\* CONFIG.RATE_LIMIT.RATE_LIMIT_KEYWORDS; a text is the sequence of its words
RATE_LIMIT_KEYWORDS ==
  {<<"too", "many">>, <<"rate", "limit">>, <<"quota">>, <<"try", "again", "later">>}

VARIABLES
  source,     \* data rows of the course table
  ledger,     \* data rows of the status sheet, up to the last row with content
  events,     \* every event ever created, by event id
  nextId,     \* the next value generateRecordId returns
  timezone,   \* config.timezone of the table
  edits,      \* changes made so far by the user
  failed,     \* provider call sites that failed so far
  log,        \* what the last step did
  retry,      \* the call of a retry loop that is under way, when one is followed
  book        \* the tables listed in _SheetConfig, when main runs over several

vars == <<source, ledger, events, nextId, timezone, edits, failed, log, retry, book>>

\* ------------------------------------------------------------ the sheets
BlankRow == [lessonNumber |-> 0, date |-> 0, courseTitle |-> "", recordId |-> 0]

BlankEntry ==
  [recordId |-> 0, lessonNumber |-> 0, date |-> 0, token |-> <<>>,
   teacherEmailStatus |-> "", teacherCalendarId |-> "", teacherEventId |-> 0,
   studentEmailStatus |-> "", studentCalendarId |-> "", studentEventId |-> 0,
   status |-> ""]

Max(S) == CHOOSE x \in S : \A y \in S : y <= x

RECURSIVE TrimBlank(_)
TrimBlank(rows) ==
  IF rows # <<>> /\ rows[Len(rows)] = BlankEntry
  THEN TrimBlank(SubSeq(rows, 1, Len(rows) - 1))
  ELSE rows

GetLastRow(sheet) == Len(sheet) + 1

GetRow(sheet, rowIndex) ==
  IF rowIndex - 1 \in 1..Len(sheet) THEN sheet[rowIndex - 1] ELSE BlankEntry

SetRow(sheet, rowIndex, entry) ==
  LET n == IF rowIndex - 1 > Len(sheet) THEN rowIndex - 1 ELSE Len(sheet)
  IN TrimBlank([i \in 1..n |-> IF i = rowIndex - 1 THEN entry
                                ELSE IF i <= Len(sheet) THEN sheet[i] ELSE BlankEntry])

DeleteRowAt(sheet, rowIndex) ==
  IF rowIndex - 1 \in 1..Len(sheet)
  THEN TrimBlank(SubSeq(sheet, 1, rowIndex - 2) \o SubSeq(sheet, rowIndex, Len(sheet)))
  ELSE sheet

\* ------------------------------------------------------------ fingerprint
TzShift(tz) == IF tz = CONFIG_TIMEZONE THEN 0 ELSE 1

\* Utilities.formatDate(date, tz, 'yyyy-MM-dd'): the day the instant falls on in tz
FormatDay(date, tz) == (date - TzShift(tz)) \div 2

\* the cell a written 'yyyy-MM-dd' text reads back as: midnight of that day
DayCell(day) == 2 * day

calculateCourseToken(course) ==
  <<FormatDay(course.date, course.timezone), course.startTime, course.endTime,
    course.courseTitle, course.teacherName, course.teacherEmail,
    course.studentName, course.studentEmail>>

\* ------------------------------------------------------------ the table
Config ==
  [teacherEmail |-> "teacher@mail", studentEmail |-> "student@mail",
   teacherCalendarId |-> "teacherCal", studentCalendarId |-> "studentCal"]

\* rows readCourseData keeps: first cell (课次) and date filled, both addresses configured
ValidRow(row) ==
  /\ row.lessonNumber # 0
  /\ row.date # 0
  /\ Config.teacherEmail # "" /\ Config.studentEmail # ""

MakeCourse(row, i) ==
  LET c == [lessonNumber |-> row.lessonNumber, date |-> row.date,
            courseTitle |-> row.courseTitle,
            teacherName |-> "teacher", studentName |-> "student",
            startTime |-> "10:00", endTime |-> "11:00",
            teacherEmail |-> Config.teacherEmail, studentEmail |-> Config.studentEmail,
            teacherCalendarId |-> Config.teacherCalendarId,
            studentCalendarId |-> Config.studentCalendarId,
            rowIndex |-> i + 1, recordId |-> row.recordId,
            timezone |-> CONFIG_TIMEZONE, oldRecords |-> <<>>, token |-> <<>>]
  IN [c EXCEPT !.token = calculateCourseToken(c)]

RECURSIVE readRows(_, _)
readRows(rows, i) ==
  IF i > Len(rows) THEN <<>>
  ELSE IF ValidRow(rows[i]) THEN <<MakeCourse(rows[i], i)>> \o readRows(rows, i + 1)
  ELSE readRows(rows, i + 1)

readCourseData(rows) == readRows(rows, 1)

\* processSheet lines 380-383: the table's timezone is attached after the read
attachTimezone(courses, tz) ==
  [k \in 1..Len(courses) |-> [courses[k] EXCEPT !.timezone = tz]]

\* ------------------------------------------------------------ the ledger
\* readProcessedStatus skips a row whose 课次 and 日期 are both empty
Listed(entry) == entry.lessonNumber # 0 \/ entry.date # 0

\* processedRecords.byId.get(recordId): the data row of the record, 0 when none;
\* Map.set keeps the last row that carries the id
byId(pr, recordId) ==
  LET S == {i \in 1..Len(pr) : Listed(pr[i]) /\ pr[i].recordId = recordId /\ recordId # 0}
  IN IF S = {} THEN 0 ELSE Max(S)

\* processedRecords.byKey.get(`${lessonNumber}_${date}`)
byKey(pr, lessonNumber, date) ==
  LET S == {i \in 1..Len(pr) :
              Listed(pr[i]) /\ pr[i].lessonNumber = lessonNumber /\ pr[i].date = date}
  IN IF S = {} THEN 0 ELSE Max(S)

\* the event id of a record read by readProcessedStatus: a status text is emptied
validEventId(cell) == IF cell \in invalidStatusTexts THEN 0 ELSE cell

\* the records readProcessedStatus returns, one for each data row
readProcessedStatus(sheet) ==
  [i \in 1..Len(sheet) |-> [sheet[i] EXCEPT !.teacherEventId = validEventId(@),
                                            !.studentEventId = validEventId(@)]]

\* record id first, lessonNumber_date key second (processSheet 416-423, getExistingEventIds)
\* the lookup consulting the lessonNumber_date key before the record id
lookupRecordKeyFirst(pr, course) ==
  LET i == byKey(pr, course.lessonNumber, course.date)
  IN IF i # 0 THEN i
     ELSE IF course.recordId # 0 THEN byId(pr, course.recordId) ELSE 0

lookupRecord(pr, course) ==
  LET i == IF course.recordId # 0 THEN byId(pr, course.recordId) ELSE 0
  IN IF i # 0 THEN i ELSE byKey(pr, course.lessonNumber, course.date)

DeletedRecord(pr, i) == [pr[i] EXCEPT !.status = ""] @@ [rowIndex |-> i + 1]

RECURSIVE deletedById(_, _, _)
deletedById(courses, pr, i) ==
  IF i > Len(pr) THEN <<>>
  ELSE LET e == pr[i]
           first == Listed(e) /\ e.recordId # 0
                    /\ \A j \in 1..(i - 1) : ~(Listed(pr[j]) /\ pr[j].recordId = e.recordId)
           inTable == \E k \in 1..Len(courses) : courses[k].recordId = e.recordId
       IN (IF first /\ ~inTable THEN <<DeletedRecord(pr, byId(pr, e.recordId))>> ELSE <<>>)
          \o deletedById(courses, pr, i + 1)

RECURSIVE deletedByKey(_, _, _)
deletedByKey(courses, pr, i) ==
  IF i > Len(pr) THEN <<>>
  ELSE LET e == pr[i]
           first == Listed(e)
                    /\ \A j \in 1..(i - 1) :
                         ~(Listed(pr[j]) /\ pr[j].lessonNumber = e.lessonNumber
                                         /\ pr[j].date = e.date)
           r == pr[byKey(pr, e.lessonNumber, e.date)]
           inTable == \E k \in 1..Len(courses) :
                        courses[k].lessonNumber = e.lessonNumber /\ courses[k].date = e.date
       IN (IF first /\ r.recordId = 0 /\ ~inTable
           THEN <<DeletedRecord(pr, byKey(pr, e.lessonNumber, e.date))>> ELSE <<>>)
          \o deletedByKey(courses, pr, i + 1)

findDeletedRecords(courses, pr) ==
  deletedById(courses, pr, 1) \o deletedByKey(courses, pr, 1)

\* ------------------------------------------------------------ bounded retry
\* what the provider answers to one attempt: success, or an error with a message
Succeeds == [ok |-> TRUE, message |-> <<>>]

ErrorOf(message) == [ok |-> FALSE, message |-> message]

RateLimitExceeded == ErrorOf(<<"Rate", "Limit", "Exceeded">>)

TooManyTimes == ErrorOf(<<"Service", "invoked", "too", "many", "times">>)

NotFound == ErrorOf(<<"Event", "not", "found">>)

NoMessage == ErrorOf(<<>>)

Responses == {Succeeds, RateLimitExceeded, TooManyTimes, NotFound, NoMessage}

LowerWord(w) ==
  CASE w = "Rate" -> "rate"
    [] w = "Limit" -> "limit"
    [] w = "Exceeded" -> "exceeded"
    [] w = "Service" -> "service"
    [] w = "Event" -> "event"
    [] OTHER -> w

toLowerCase(text) == [i \in 1..Len(text) |-> LowerWord(text[i])]

includes(text, keyword) ==
  \E i \in 0..(Len(text) - Len(keyword)) : SubSeq(text, i + 1, i + Len(keyword)) = keyword

isRateLimitError(error) ==
  /\ error.message # <<>>
  /\ \E keyword \in RATE_LIMIT_KEYWORDS : includes(toLowerCase(error.message), keyword)

\* a call of createEventWithRetry, deleteEventWithRetry or updateEventWithRetry:
\* responses[k] is the provider's answer to the k-th attempt, should it be made
StartRetry(op, responses) ==
  [op |-> op, responses |-> responses, attempt |-> 0, slept |-> <<>>,
   done |-> FALSE, ok |-> FALSE, error |-> <<>>]

\* the for loop without the test of isRateLimitError: every error is retried
retryAnyError(r) ==
  LET attempt == r.attempt + 1
      slept == IF attempt > 1 THEN Append(r.slept, RETRY_DELAY * (attempt - 1)) ELSE r.slept
      answer == r.responses[attempt]
      r1 == [r EXCEPT !.attempt = attempt, !.slept = slept]
  IN IF answer.ok THEN [r1 EXCEPT !.done = TRUE, !.ok = TRUE]
     ELSE IF attempt < MAX_RETRIES THEN r1
     ELSE [r1 EXCEPT !.done = TRUE, !.error = <<"failed", "(throttled):">> \o answer.message]

\* one iteration of the for loop: sleep (but for the first attempt), the provider
\* call, then return, continue or throw; the error thrown after the last attempt
\* wraps the provider's message
retryAttempt(r) ==
  LET attempt == r.attempt + 1
      slept == IF attempt > 1 THEN Append(r.slept, RETRY_DELAY * (attempt - 1)) ELSE r.slept
      answer == r.responses[attempt]
      r1 == [r EXCEPT !.attempt = attempt, !.slept = slept]
  IN IF answer.ok THEN [r1 EXCEPT !.done = TRUE, !.ok = TRUE]
     ELSE IF isRateLimitError(answer)
          THEN IF attempt < MAX_RETRIES THEN r1
               ELSE [r1 EXCEPT !.done = TRUE, !.error = <<"failed", "(throttled):">> \o answer.message]
     ELSE [r1 EXCEPT !.done = TRUE, !.error = answer.message]

RECURSIVE retryLoop(_)
retryLoop(r) == IF r.done THEN r ELSE retryLoop(retryAttempt(r))

createEventWithRetry(responses) == retryLoop(StartRetry("create", responses))

deleteEventWithRetry(responses) == retryLoop(StartRetry("delete", responses))

updateEventWithRetry(responses) == retryLoop(StartRetry("update", responses))

\* ------------------------------------------------------------ the provider
\* a call site of one run: the kind of call, the binding, the row it is made for;
\* F holds the sites at which the provider fails in the run, each with the error
\* it answers to every attempt made there
Fails(F, kind, binding, row) ==
  \E f \in F : f[1] = kind /\ f[2] = binding /\ f[3] = row

AnswerAt(F, kind, binding, row) ==
  IF Fails(F, kind, binding, row)
  THEN (CHOOSE f \in F : f[1] = kind /\ f[2] = binding /\ f[3] = row)[4]
  ELSE Succeeds

AnswersAt(F, kind, binding, row) ==
  [k \in 1..MAX_RETRIES |-> AnswerAt(F, kind, binding, row)]

Call(op, binding, eventId, recordId, row, ok) ==
  [op |-> op, binding |-> binding, eventId |-> eventId, recordId |-> recordId,
   row |-> row, ok |-> ok, attempts |-> 1, error |-> <<>>]

\* a call made through one of the retry loops: r is the loop when it ended
RetriedCall(op, binding, eventId, recordId, row, r) ==
  [op |-> op, binding |-> binding, eventId |-> eventId, recordId |-> recordId,
   row |-> row, ok |-> r.ok, attempts |-> r.attempt, error |-> r.error]

\* a deleted event: getEventById no longer returns it, whatever it held
DeletedEvent ==
  [calendarId |-> "", live |-> FALSE, recordId |-> 0, lessonNumber |-> 0, date |-> 0,
   courseTitle |-> ""]

\* calendar.getEventById(eventId) returns an event
EventFound(ev, calendarId, eventId) ==
  /\ eventId \in 1..Len(ev)
  /\ ev[eventId].live
  /\ ev[eventId].calendarId = calendarId

EventFoundAnywhere(ev, eventId) == eventId \in 1..Len(ev) /\ ev[eventId].live

verifyCalendarEventExists(m, F, calendarId, eventId, binding, row) ==
  /\ calendarId # "" /\ eventId # 0
  /\ ~Fails(F, "verify", binding, row)
  /\ EventFound(m.ev, calendarId, eventId)

\* deleteEventWithRetry on a found event: it is deleted unless the provider fails
deleteFound(m, F, eventId, binding, recordId, row) ==
  LET r == deleteEventWithRetry(AnswersAt(F, "delete", binding, row))
      m1 == [m EXCEPT !.calls = Append(@, RetriedCall("delete", binding, eventId,
                                                      recordId, row, r))]
  IN IF r.ok THEN [m1 EXCEPT !.ev[eventId] = DeletedEvent] ELSE m1

\* calendar.getEventById(eventId) of a delete that returns no event
notFound(m, eventId, binding, recordId, row) ==
  [m EXCEPT !.calls = Append(@, Call("find", binding, eventId, recordId, row, FALSE))]

deleteCalendarEvent(m, F, calendarId, eventId, binding, recordId, row) ==
  IF calendarId = "" \/ eventId = 0 THEN m
  ELSE IF ~EventFound(m.ev, calendarId, eventId)
       THEN notFound(m, eventId, binding, recordId, row)
  ELSE deleteFound(m, F, eventId, binding, recordId, row)

deleteCalendarEventById(m, F, eventId, binding, recordId, row) ==
  IF eventId = 0 THEN m
  ELSE IF ~EventFoundAnywhere(m.ev, eventId)
       THEN notFound(m, eventId, binding, recordId, row)
  ELSE deleteFound(m, F, eventId, binding, recordId, row)

\* the two delete blocks of cancelCourse and of processCourse's old records
deleteBoundEvent(m, F, calendarId, eventId, binding, recordId, row) ==
  IF eventId = 0 THEN m
  ELSE IF calendarId # ""
       THEN deleteCalendarEvent(m, F, calendarId, eventId, binding, recordId, row)
       ELSE deleteCalendarEventById(m, F, eventId, binding, recordId, row)

sendCancellationEmails(m, F, rec) ==
  IF EventFoundAnywhere(m.ev, rec.teacherEventId) \/ EventFoundAnywhere(m.ev, rec.studentEventId)
  THEN [m EXCEPT !.calls = @ \o
          <<Call("cancelmail", "teacher", 0, rec.recordId, rec.rowIndex,
                 ~Fails(F, "mail", "teacher", rec.rowIndex)),
            Call("cancelmail", "student", 0, rec.recordId, rec.rowIndex,
                 ~Fails(F, "mail", "student", rec.rowIndex))>>]
  ELSE m

\* what cancelCourse leaves in the log of the run: the record, its row and the
\* ledger row as it is when cancelCourse ends
Cancelled(m, rec) ==
  [recordId |-> rec.recordId, rowIndex |-> rec.rowIndex,
   entry |-> GetRow(m.led, rec.rowIndex)]

\* cancelCourse giving up at the first delete that fails: the status row is
\* cleared only when both events are gone
cancelCourseBlocking(m, F, rec) ==
  LET m1 == deleteBoundEvent(m, F, rec.teacherCalendarId, rec.teacherEventId, "teacher",
                             rec.recordId, rec.rowIndex)
      m2 == deleteBoundEvent(m1, F, rec.studentCalendarId, rec.studentEventId, "student",
                             rec.recordId, rec.rowIndex)
      gone(m3) == /\ ~EventFoundAnywhere(m3.ev, rec.teacherEventId)
                  /\ ~EventFoundAnywhere(m3.ev, rec.studentEventId)
      logged(m4) == [m4 EXCEPT !.cancelled = Append(@, Cancelled(m4, rec))]
      cleared(m3) ==
        logged(IF gone(m3) THEN [m3 EXCEPT !.led = SetRow(@, rec.rowIndex, BlankEntry)]
               ELSE m3)
  IN cleared(m2)

cancelCourse(m, F, rec) ==
  LET statusRow == GetRow(m.led, rec.rowIndex)
      teacherCalendarId == IF rec.teacherCalendarId # "" THEN rec.teacherCalendarId
                           ELSE statusRow.teacherCalendarId
      studentCalendarId == IF rec.studentCalendarId # "" THEN rec.studentCalendarId
                           ELSE statusRow.studentCalendarId
      m1 == deleteBoundEvent(m, F, teacherCalendarId, rec.teacherEventId, "teacher",
                             rec.recordId, rec.rowIndex)
      m2 == deleteBoundEvent(m1, F, studentCalendarId, rec.studentEventId, "student",
                             rec.recordId, rec.rowIndex)
      logged(m4) == [m4 EXCEPT !.cancelled = Append(@, Cancelled(m4, rec))]
      cleared(m3) == logged([m3 EXCEPT !.led = SetRow(@, rec.rowIndex, BlankEntry)])
  IN cleared(sendCancellationEmails(m2, F, rec))

RECURSIVE cancelAll(_, _, _, _)
cancelAll(m, F, deleted, k) ==
  IF k > Len(deleted) THEN m
  ELSE cancelAll(cancelCourse(m, F, deleted[k]), F, deleted, k + 1)

\* ------------------------------------------------------- ledger alignment
\* syncStatusSheet without the branch of lines 2333-2338: rows are added, none
\* is deleted
syncStatusSheetGrowOnly(sheet, courseCount) == sheet

syncStatusSheet(sheet, courseCount) ==
  LET currentRowCount == GetLastRow(sheet)
      targetRowCount == courseCount + 1
  IN IF currentRowCount > targetRowCount
     THEN TrimBlank(SubSeq(sheet, 1, targetRowCount - 1))
     ELSE sheet     \* rows of empty cells are written below the content

\* ------------------------------------------------------- identity registry
\* assignRecordIds without the test of line 1263: the id of the status row at
\* the position of the course is taken whether or not the row carries an id
assignOneUnguarded(m, prAfter, k) ==
  LET course == m.courses[k]
      statusRow == GetRow(m.led, course.rowIndex)
      i == byKey(prAfter, course.lessonNumber, course.date)
      recordId == IF statusRow.recordId # 0 THEN statusRow.recordId
                  ELSE IF i # 0 /\ prAfter[i].recordId # 0 THEN prAfter[i].recordId
                  ELSE IF course.recordId # 0 THEN course.recordId
                  ELSE m.nextId
      generated == /\ statusRow.recordId = 0 /\ ~(i # 0 /\ prAfter[i].recordId # 0)
                   /\ course.recordId = 0
  IN [m EXCEPT !.courses[k].recordId = recordId,
               !.src[course.rowIndex - 1].recordId = recordId,
               !.nextId = IF generated THEN @ + 1 ELSE @]

\* assignRecordIds consulting the lessonNumber_date key before the status row
\* at the position of the course
assignOneKeyFirst(m, prAfter, k) ==
  LET course == m.courses[k]
      statusRow == GetRow(m.led, course.rowIndex)
      i == byKey(prAfter, course.lessonNumber, course.date)
      recordId == IF i # 0 /\ prAfter[i].recordId # 0 THEN prAfter[i].recordId
                  ELSE IF statusRow.recordId # 0 THEN statusRow.recordId
                  ELSE m.nextId
      generated == statusRow.recordId = 0 /\ ~(i # 0 /\ prAfter[i].recordId # 0)
  IN IF course.recordId # 0 THEN m
     ELSE [m EXCEPT !.courses[k].recordId = recordId,
                    !.src[course.rowIndex - 1].recordId = recordId,
                    !.nextId = IF generated THEN @ + 1 ELSE @]

assignOne(m, prAfter, k) ==
  LET course == m.courses[k]
      statusRow == GetRow(m.led, course.rowIndex)
      i == byKey(prAfter, course.lessonNumber, course.date)
      recordId == IF statusRow.recordId # 0 THEN statusRow.recordId
                  ELSE IF i # 0 /\ prAfter[i].recordId # 0 THEN prAfter[i].recordId
                  ELSE m.nextId
      generated == statusRow.recordId = 0 /\ ~(i # 0 /\ prAfter[i].recordId # 0)
  IN IF course.recordId # 0 THEN m
     ELSE [m EXCEPT !.courses[k].recordId = recordId,
                    !.src[course.rowIndex - 1].recordId = recordId,
                    !.nextId = IF generated THEN @ + 1 ELSE @]

RECURSIVE assignFrom(_, _, _)
assignFrom(m, prAfter, k) ==
  IF k > Len(m.courses) THEN m
  ELSE assignFrom(assignOne(m, prAfter, k), prAfter, k + 1)

assignRecordIds(m, prAfter) == assignFrom(m, prAfter, 1)

\* -------------------------------------------------------------- reconciler
RECURSIVE oldRecordsFrom(_, _, _, _, _)
oldRecordsFrom(sheet, lessonNumber, currentDate, tz, i) ==
  IF i > Len(sheet) THEN <<>>
  ELSE LET row == sheet[i]
           old == /\ row.lessonNumber = lessonNumber
                  /\ row.date # 0
                  /\ FormatDay(row.date, tz) # FormatDay(currentDate, tz)
       IN (IF old THEN <<row @@ [rowIndex |-> i + 1]>> ELSE <<>>)
          \o oldRecordsFrom(sheet, lessonNumber, currentDate, tz, i + 1)

findOldRecordsByLessonNumber(sheet, lessonNumber, currentDate, tz) ==
  IF GetLastRow(sheet) < 2 THEN <<>>
  ELSE oldRecordsFrom(sheet, lessonNumber, currentDate, tz, 1)

\* statusSheet.getRange(rowIndex, 8 or 13).setValue(''): empties one event id cell
clearEventId(sheet, rowIndex, binding) ==
  IF rowIndex - 1 \in 1..Len(sheet)
  THEN TrimBlank(IF binding = "teacher"
                 THEN [sheet EXCEPT ![rowIndex - 1].teacherEventId = 0]
                 ELSE [sheet EXCEPT ![rowIndex - 1].studentEventId = 0])
  ELSE sheet

\* found is the existingRecord of the filter, as it is when the filter reaches
\* the course; a blank entry when both lookups fail
Classified(m, k, class, selected, found) ==
  [m EXCEPT !.class = Append(@, [row |-> m.courses[k].rowIndex,
                                 recordId |-> m.courses[k].recordId, class |-> class,
                                 found |-> found]),
            !.sel = IF selected THEN Append(@, k) ELSE @]

\* the liveness check skipping a row as soon as one of its events is found
verifyAnyBinding(m, F, k, i) ==
  LET course == m.courses[k]
      rec == m.pr[i]
      teacherChecked == rec.teacherEventId # 0 /\ rec.teacherCalendarId # ""
      studentChecked == rec.studentEventId # 0 /\ rec.studentCalendarId # ""
      teacherEventExists ==
        teacherChecked /\ verifyCalendarEventExists(m, F, rec.teacherCalendarId,
                                                    rec.teacherEventId, "teacher", course.rowIndex)
      studentEventExists ==
        studentChecked /\ verifyCalendarEventExists(m, F, rec.studentCalendarId,
                                                    rec.studentEventId, "student", course.rowIndex)
      checks ==
        (IF teacherChecked
         THEN <<Call("verify", "teacher", rec.teacherEventId, course.recordId,
                     course.rowIndex, teacherEventExists)>> ELSE <<>>)
        \o (IF studentChecked
            THEN <<Call("verify", "student", rec.studentEventId, course.recordId,
                        course.rowIndex, studentEventExists)>> ELSE <<>>)
      m1 == [m EXCEPT !.calls = @ \o checks]
  IN IF teacherEventExists \/ studentEventExists
     THEN Classified(m1, k, "unchanged-verified", FALSE, rec)
     ELSE Classified(m1, k, "unchanged-stale", TRUE, rec)

\* processSheet 448-529: the liveness check of a row whose fingerprint is unchanged
verifyBindings(m, F, k, i) ==
  LET course == m.courses[k]
      rec == m.pr[i]
      hasTeacherEventId == rec.teacherEventId # 0
      hasStudentEventId == rec.studentEventId # 0
      teacherChecked == hasTeacherEventId /\ rec.teacherCalendarId # ""
      studentChecked == hasStudentEventId /\ rec.studentCalendarId # ""
      teacherEventExists ==
        teacherChecked /\ verifyCalendarEventExists(m, F, rec.teacherCalendarId,
                                                    rec.teacherEventId, "teacher", course.rowIndex)
      studentEventExists ==
        studentChecked /\ verifyCalendarEventExists(m, F, rec.studentCalendarId,
                                                    rec.studentEventId, "student", course.rowIndex)
      clearTeacher == hasTeacherEventId /\ ~teacherEventExists
      clearStudent == hasStudentEventId /\ ~studentEventExists
      led1 == IF clearTeacher THEN clearEventId(m.led, i + 1, "teacher") ELSE m.led
      led2 == IF clearStudent THEN clearEventId(led1, i + 1, "student") ELSE led1
      checks ==
        (IF teacherChecked
         THEN <<Call("verify", "teacher", rec.teacherEventId, course.recordId,
                     course.rowIndex, teacherEventExists)>> ELSE <<>>)
        \o (IF studentChecked
            THEN <<Call("verify", "student", rec.studentEventId, course.recordId,
                        course.rowIndex, studentEventExists)>> ELSE <<>>)
      m1 == [m EXCEPT !.led = led2,
                      !.pr[i].teacherEventId = IF clearTeacher THEN 0 ELSE @,
                      !.pr[i].studentEventId = IF clearStudent THEN 0 ELSE @,
                      !.calls = @ \o checks]
  IN IF teacherEventExists /\ studentEventExists
     THEN Classified(m1, k, "unchanged-verified", FALSE, rec)
     ELSE Classified(m1, k, "unchanged-stale", TRUE, rec)

\* the filter without the test of the stored status at line 533: a row with an
\* unchanged fingerprint and no recorded event id is never selected
filterCourseNoRetry(m, F, k) ==
  LET course == m.courses[k]
      i == lookupRecord(m.pr, course)
  IN IF i = 0
     THEN LET old == findOldRecordsByLessonNumber(m.led, course.lessonNumber,
                                                  course.date, course.timezone)
          IN Classified([m EXCEPT !.courses[k].oldRecords = old], k, "new", TRUE, BlankEntry)
     ELSE IF calculateCourseToken(course) # m.pr[i].token
          THEN Classified(m, k, "changed", TRUE, m.pr[i])
     ELSE IF m.pr[i].teacherEventId # 0 \/ m.pr[i].studentEventId # 0
          THEN verifyBindings(m, F, k, i)
     ELSE Classified(m, k, "terminal-skip", FALSE, m.pr[i])

\* the body of courses.filter in processSheet, for the k-th course
filterCourse(m, F, k) ==
  LET course == m.courses[k]
      i == lookupRecord(m.pr, course)
  IN IF i = 0
     THEN LET old == findOldRecordsByLessonNumber(m.led, course.lessonNumber,
                                                  course.date, course.timezone)
          IN Classified([m EXCEPT !.courses[k].oldRecords = old], k, "new", TRUE, BlankEntry)
     ELSE IF calculateCourseToken(course) # m.pr[i].token
          THEN Classified(m, k, "changed", TRUE, m.pr[i])
     ELSE IF m.pr[i].teacherEventId # 0 \/ m.pr[i].studentEventId # 0
          THEN verifyBindings(m, F, k, i)
     ELSE IF m.pr[i].status # STATUS_COMPLETED
          THEN Classified(m, k, "retry", TRUE, m.pr[i])
     ELSE Classified(m, k, "terminal-skip", FALSE, m.pr[i])

RECURSIVE filterFrom(_, _, _)
filterFrom(m, F, k) ==
  IF k > Len(m.courses) THEN m ELSE filterFrom(filterCourse(m, F, k), F, k + 1)

\* ---------------------------------------------------------------- executor
getExistingEventIds(sheet, course) ==
  LET i == lookupRecord(sheet, course)
  IN [teacherEventId |-> IF i # 0 THEN validEventId(sheet[i].teacherEventId) ELSE 0,
      studentEventId |-> IF i # 0 THEN validEventId(sheet[i].studentEventId) ELSE 0,
      token |-> IF i # 0 THEN sheet[i].token ELSE <<>>,
      hasChanges |-> IF i # 0 THEN sheet[i].token # course.token ELSE TRUE]

NewEvent(calendarId, course) ==
  [calendarId |-> calendarId, live |-> TRUE, recordId |-> course.recordId,
   lessonNumber |-> course.lessonNumber, date |-> course.date,
   courseTitle |-> course.courseTitle]

\* createOrUpdateCalendarEvent calling createEventWithRetry once more when it
\* has failed
createOrUpdateTwice(m, F, calendarId, course, existingEventId, binding) ==
  LET row == course.rowIndex
      found == existingEventId # 0 /\ EventFound(m.ev, calendarId, existingEventId)
      u == updateEventWithRetry(AnswersAt(F, "update", binding, row))
      updated == found /\ u.ok
      m1 == IF found
            THEN [m EXCEPT !.calls = Append(@, RetriedCall("update", binding, existingEventId,
                                                           course.recordId, row, u))]
            ELSE m
      c == createEventWithRetry(AnswersAt(F, "create", binding, row))
      newId == Len(m.ev) + 1
  IN IF updated
     THEN [m |-> [m1 EXCEPT !.ev[existingEventId].date = course.date,
                            !.ev[existingEventId].courseTitle = course.courseTitle,
                            !.ev[existingEventId].lessonNumber = course.lessonNumber],
           eventId |-> existingEventId]
     ELSE IF ~c.ok
     THEN [m |-> [m1 EXCEPT !.calls = @ \o <<RetriedCall("create", binding, 0,
                                                          course.recordId, row, c),
                                              RetriedCall("create", binding, 0,
                                                          course.recordId, row, c)>>],
           eventId |-> 0]
     ELSE [m |-> [m1 EXCEPT !.ev = Append(@, NewEvent(calendarId, course)),
                            !.calls = Append(@, RetriedCall("create", binding, newId,
                                                            course.recordId, row, c))],
           eventId |-> newId]

\* returns the machine and the event id; eventId 0 stands for the thrown error
createOrUpdateCalendarEvent(m, F, calendarId, course, existingEventId, binding) ==
  LET row == course.rowIndex
      found == existingEventId # 0 /\ EventFound(m.ev, calendarId, existingEventId)
      u == updateEventWithRetry(AnswersAt(F, "update", binding, row))
      updated == found /\ u.ok
      m1 == IF found
            THEN [m EXCEPT !.calls = Append(@, RetriedCall("update", binding, existingEventId,
                                                           course.recordId, row, u))]
            ELSE m
      c == createEventWithRetry(AnswersAt(F, "create", binding, row))
      newId == Len(m.ev) + 1
  IN IF updated
     THEN [m |-> [m1 EXCEPT !.ev[existingEventId].date = course.date,
                            !.ev[existingEventId].courseTitle = course.courseTitle,
                            !.ev[existingEventId].lessonNumber = course.lessonNumber],
           eventId |-> existingEventId]
     ELSE IF ~c.ok
     THEN [m |-> [m1 EXCEPT !.calls = Append(@, RetriedCall("create", binding, 0,
                                                            course.recordId, row, c))],
           eventId |-> 0]
     ELSE [m |-> [m1 EXCEPT !.ev = Append(@, NewEvent(calendarId, course)),
                            !.calls = Append(@, RetriedCall("create", binding, newId,
                                                            course.recordId, row, c))],
           eventId |-> newId]

\* steps 1-2 and 3-4 of processCourse for one participant:
\* the course email, then the calendar event; returns the machine and result.<x>Email
processBinding(m, F, course, existingInfo, binding) ==
  LET row == course.rowIndex
      calendarId == IF binding = "teacher" THEN course.teacherCalendarId
                    ELSE course.studentCalendarId
      existingEventId == IF binding = "teacher" THEN existingInfo.teacherEventId
                         ELSE existingInfo.studentEventId
      needsResendEmail == existingInfo.hasChanges
      sent == needsResendEmail /\ ~Fails(F, "mail", binding, row)
      mailError == IF needsResendEmail /\ ~sent THEN ERR_MAIL ELSE ""
      m1 == IF needsResendEmail
            THEN [m EXCEPT !.calls = Append(@, Call("mail", binding, 0, course.recordId,
                                                    row, sent))]
            ELSE m
      event(r) ==
        [m |-> r.m,
         res |-> [sent |-> sent,
                  eventId |-> IF r.eventId # 0 THEN r.eventId ELSE existingEventId,
                  error |-> IF r.eventId # 0 THEN mailError ELSE ERR_EVENT]]
  IN IF existingInfo.hasChanges \/ existingEventId = 0
     THEN event(createOrUpdateCalendarEvent(m1, F, calendarId, course, existingEventId,
                                            binding))
     ELSE [m |-> m1,
           res |-> [sent |-> sent, eventId |-> existingEventId, error |-> mailError]]

\* step 5 of processCourse
rowStatus(teacherEmail, studentEmail) ==
  LET teacherSuccess == teacherEmail.eventId # 0 /\ teacherEmail.error = ""
      studentSuccess == studentEmail.eventId # 0 /\ studentEmail.error = ""
  IN IF teacherSuccess /\ studentSuccess THEN STATUS_COMPLETED
     ELSE IF teacherSuccess \/ studentSuccess THEN STATUS_PARTIAL
     ELSE STATUS_FAILED

emailStatusCell(res, existing, cell) ==
  IF res.sent THEN MAIL_SENT
  ELSE IF res.error # "" THEN res.error
  ELSE IF existing THEN cell ELSE MAIL_UNSENT

updateStatusRecord(m, course, result) ==
  LET rowIndex == course.rowIndex
      row == GetRow(m.led, rowIndex)
      existing == rowIndex <= GetLastRow(m.led) /\ Listed(row)
      generated == course.recordId = 0 /\ ~(existing /\ row.recordId # 0)
      recordId == IF course.recordId # 0 THEN course.recordId
                  ELSE IF existing /\ row.recordId # 0 THEN row.recordId ELSE m.nextId
      existingTeacherEventId == IF existing THEN validEventId(row.teacherEventId) ELSE 0
      existingStudentEventId == IF existing THEN validEventId(row.studentEventId) ELSE 0
      entry ==
        [recordId |-> recordId,
         lessonNumber |-> course.lessonNumber,
         date |-> DayCell(FormatDay(course.date, course.timezone)),
         token |-> course.token,
         teacherEmailStatus |->
           emailStatusCell(result.teacherEmail, existing, row.teacherEmailStatus),
         teacherCalendarId |-> course.teacherCalendarId,
         teacherEventId |-> IF validEventId(result.teacherEmail.eventId) # 0
                            THEN result.teacherEmail.eventId ELSE existingTeacherEventId,
         studentEmailStatus |->
           emailStatusCell(result.studentEmail, existing, row.studentEmailStatus),
         studentCalendarId |-> course.studentCalendarId,
         studentEventId |-> IF validEventId(result.studentEmail.eventId) # 0
                            THEN result.studentEmail.eventId ELSE existingStudentEventId,
         status |-> result.status]
  IN [m EXCEPT !.led = SetRow(@, rowIndex, entry),
               !.nextId = IF generated THEN @ + 1 ELSE @,
               !.written = Append(@, rowIndex)]

RECURSIVE deleteOldEvents(_, _, _, _)
deleteOldEvents(m, F, course, j) ==
  IF j > Len(course.oldRecords) THEN m
  ELSE LET old == course.oldRecords[j]
           m1 == deleteBoundEvent(m, F, old.teacherCalendarId, old.teacherEventId,
                                  "teacher", old.recordId, course.rowIndex)
           m2 == deleteBoundEvent(m1, F, old.studentCalendarId, old.studentEventId,
                                  "student", old.recordId, course.rowIndex)
       IN deleteOldEvents(m2, F, course, j + 1)

\* rows are deleted from the bottom up
RECURSIVE deleteOldStatusRecords(_, _, _)
deleteOldStatusRecords(sheet, oldRecords, j) ==
  IF j < 1 THEN sheet
  ELSE deleteOldStatusRecords(DeleteRowAt(sheet, oldRecords[j].rowIndex), oldRecords, j - 1)

processCourse(m, F, k) ==
  LET course == m.courses[k]
      \* step 6, and what the run reports of the row
      recorded(m3, result, existingInfo) ==
        [m3 EXCEPT !.results = Append(@, result @@ [row |-> course.rowIndex,
                                                    recordId |-> course.recordId,
                                                    hasChanges |-> existingInfo.hasChanges,
                                                    existing |-> existingInfo,
                                                    entry |-> GetRow(m3.led, course.rowIndex)])]
      \* step 5
      judged(m2, result, existingInfo) ==
        recorded(updateStatusRecord(m2, course, result), result, existingInfo)
      student(teacherEmail, s, existingInfo) ==
        judged(s.m, [teacherEmail |-> teacherEmail, studentEmail |-> s.res,
                     status |-> rowStatus(teacherEmail, s.res)], existingInfo)
      teacher(t, existingInfo) ==
        student(t.res, processBinding(t.m, F, course, existingInfo, "student"), existingInfo)
      bindings(m2, existingInfo) ==
        teacher(processBinding(m2, F, course, existingInfo, "teacher"), existingInfo)
      \* sheet: the status sheet as getExistingEventIds read it
      lookedUp(m2) == bindings(m2, getExistingEventIds(m2.led, course) @@ [sheet |-> m2.led])
      oldRows(m1) == lookedUp([m1 EXCEPT !.led = deleteOldStatusRecords(@, course.oldRecords,
                                                                        Len(course.oldRecords))])
  IN oldRows(deleteOldEvents(m, F, course, 1))

RECURSIVE processFrom(_, _, _)
processFrom(m, F, j) ==
  IF j > Len(m.sel) THEN m ELSE processFrom(processCourse(m, F, m.sel[j]), F, j + 1)

\* ------------------------------------------------------------ orchestrator
\* processSheet 362-388: the courses and the processed records are read
readSheets(rows, sheet, ev, nid, tz) ==
  [src |-> rows, led |-> sheet, pr |-> readProcessedStatus(sheet), ev |-> ev, nextId |-> nid,
   courses |-> attachTimezone(readCourseData(rows), tz),
   sel |-> <<>>, class |-> <<>>, calls |-> <<>>,
   written |-> <<>>, cancelled |-> <<>>, results |-> <<>>]

\* processSheet 390-402: the deleted records are cancelled
cancelDeleted(m, F) == cancelAll(m, F, findDeletedRecords(m.courses, m.pr), 1)

processSheet(rows, sheet, ev, nid, tz, F) ==
  LET m1 == cancelDeleted(readSheets(rows, sheet, ev, nid, tz), F)
      courses == m1.courses
      m2 == [m1 EXCEPT !.led = syncStatusSheet(@, Len(courses))]
      m3 == assignRecordIds(m2, m2.led)
      m4 == filterFrom(m3, F, 1)
  IN processFrom(m4, F, 1)

\* processSheet 561-579: the counts of the run and the value returned
sheetResult(m) ==
  LET failedCount == Cardinality({r \in 1..Len(m.results) :
                                    m.results[r].status # STATUS_COMPLETED})
  IN [success |-> TRUE, total |-> Len(m.courses), processed |-> Len(m.sel),
      successCount |-> Len(m.results) - failedCount,
      failed |-> failedCount, error |-> ""]

\* processSheet 581-590, and main 318-327: the value recorded for a table that failed
sheetFailure(message) ==
  [success |-> FALSE, total |-> 0, processed |-> 0, successCount |-> 0,
   failed |-> 0, error |-> message]

ERR_NO_SHEET == "sheet not found"     \* `找不到 Sheet: ${sheetName}`
ERR_STORE == "store error"            \* error.message of a failed sheet operation

\* processSheet for table k of the book; a table whose sheet is missing throws at
\* line 365, a store fault makes syncStatusSheet throw at line 405, after the
\* deleted records have been cancelled
processTable(st, faults, k) ==
  LET table == st.book[k]
      thrown(m) ==
        [st EXCEPT !.book[k].ledger = m.led, !.ev = m.ev,
                   !.allResults = Append(@, sheetFailure(ERR_STORE))]
      returned(m) ==
        [st EXCEPT !.book[k].source = m.src, !.book[k].ledger = m.led,
                   !.ev = m.ev, !.nextId = m.nextId,
                   !.allResults = Append(@, sheetResult(m))]
  IN IF ~table.exists
     THEN [st EXCEPT !.allResults = Append(@, sheetFailure(ERR_NO_SHEET))]
     ELSE IF faults[k] = "store"
     THEN thrown(cancelDeleted(readSheets(table.source, table.ledger, st.ev, st.nextId,
                                          CONFIG_TIMEZONE), {}))
     ELSE returned(processSheet(table.source, table.ledger, st.ev, st.nextId,
                                CONFIG_TIMEZONE, {}))

\* the loop of main without the try of line 306: the first table that fails
\* ends the loop
RECURSIVE mainAborting(_, _, _)
mainAborting(st, faults, k) ==
  IF k > Len(st.book) THEN st
  ELSE LET next(st1) ==
             IF st1.allResults[k].success THEN mainAborting(st1, faults, k + 1) ELSE st1
       IN next(processTable(st, faults, k))

\* main 305-329: the tables of the configuration, one after the other
RECURSIVE mainLoop(_, _, _)
mainLoop(st, faults, k) ==
  IF k > Len(st.book) THEN st
  ELSE mainLoop(processTable(st, faults, k), faults, k + 1)

\* main 331-345: the summary
mainSummary(allResults) ==
  LET ok == {k \in 1..Len(allResults) : allResults[k].success}
      RECURSIVE sum(_)
      sum(k) == IF k = 0 THEN 0 ELSE allResults[k].processed + sum(k - 1)
  IN [totalSuccess |-> Cardinality(ok),
      totalFailed |-> Len(allResults) - Cardinality(ok),
      totalProcessed |-> sum(Len(allResults))]

main(bk, ev, nid, faults) ==
  mainLoop([book |-> bk, ev |-> ev, nextId |-> nid, allResults |-> <<>>], faults, 1)

\* ----------------------------------------------------------------- actions
SitesOf(calls) ==
  {<<IF calls[c].op = "cancelmail" THEN "mail" ELSE calls[c].op,
     calls[c].binding, calls[c].row>> : c \in {d \in 1..Len(calls) : calls[d].op # "find"}}

\* the errors a failing site answers: a rate limit, which the retry loops take
\* for transient, or a permanent error
SiteErrors == {RateLimitExceeded, NotFound}

\* the sets of at most n failing sites that differ in effect: a site fails a run
\* only if the run, with the failures before it, makes a call there
RECURSIVE FailSets(_)
FailSets(n) ==
  IF n = 0 THEN {{}}
  ELSE LET smaller == FailSets(n - 1)
       IN smaller \cup UNION {
            {F \cup {<<s[1], s[2], s[3], e>>} :
               s \in {t \in SitesOf(processSheet(source, ledger, events, nextId,
                                                  timezone, F).calls) :
                        ~Fails(F, t[1], t[2], t[3])},
               e \in SiteErrors} : F \in smaller}

Idle == [op |-> "edit"]

\* no retry loop is followed step by step
NoRetry == StartRetry("none", <<>>)

NewRows == [lessonNumber : Lessons, date : Dates, courseTitle : {"Algebra"}, recordId : {0}]

InsertAt(rows, p, row) == SubSeq(rows, 1, p - 1) \o <<row>> \o SubSeq(rows, p, Len(rows))

\* the user adds a course row, with no record id yet, anywhere in the table
InsertRowUpTo(n) ==
  /\ edits + failed < MaxEdits
  /\ Len(source) < n
  /\ \E p \in 1..(Len(source) + 1), row \in NewRows : source' = InsertAt(source, p, row)
  /\ edits' = edits + 1
  /\ log' = Idle
  /\ UNCHANGED <<retry, book, ledger, events, nextId, timezone, failed>>

\* the user leaves an empty row in the table
InsertBlankRowUpTo(n) ==
  /\ edits + failed < MaxEdits
  /\ Len(source) < n
  /\ \E p \in 1..(Len(source) + 1) : source' = InsertAt(source, p, BlankRow)
  /\ edits' = edits + 1
  /\ log' = Idle
  /\ UNCHANGED <<retry, book, ledger, events, nextId, timezone, failed>>

InsertRow == InsertRowUpTo(MaxRows)

InsertBlankRow == InsertBlankRowUpTo(MaxRows)

\* the user deletes a row of the table
DeleteRow ==
  /\ edits + failed < MaxEdits
  /\ \E p \in 1..Len(source) :
       source' = SubSeq(source, 1, p - 1) \o SubSeq(source, p + 1, Len(source))
  /\ edits' = edits + 1
  /\ log' = Idle
  /\ UNCHANGED <<retry, book, ledger, events, nextId, timezone, failed>>

\* the user reorders the table
SwapRows ==
  /\ edits + failed < MaxEdits
  /\ \E p \in 1..Len(source), q \in 1..Len(source) :
       /\ p < q
       /\ source[p] # source[q]
       /\ source' = [source EXCEPT ![p] = source[q], ![q] = source[p]]
  /\ edits' = edits + 1
  /\ log' = Idle
  /\ UNCHANGED <<retry, book, ledger, events, nextId, timezone, failed>>

\* the user changes the date of a course, or empties it
EditDate ==
  /\ edits + failed < MaxEdits
  /\ \E p \in 1..Len(source), d \in Dates \cup {0} :
       /\ source[p] # BlankRow
       /\ source[p].date # d
       /\ source' = [source EXCEPT ![p].date = d]
  /\ edits' = edits + 1
  /\ log' = Idle
  /\ UNCHANGED <<retry, book, ledger, events, nextId, timezone, failed>>

\* the user changes the title of a course
EditTitle ==
  /\ edits + failed < MaxEdits
  /\ \E p \in 1..Len(source), t \in Titles :
       /\ source[p] # BlankRow
       /\ source[p].courseTitle # t
       /\ source' = [source EXCEPT ![p].courseTitle = t]
  /\ edits' = edits + 1
  /\ log' = Idle
  /\ UNCHANGED <<retry, book, ledger, events, nextId, timezone, failed>>

\* somebody deletes an event in the calendar, outside the engine
ExternalDelete ==
  /\ edits + failed < MaxEdits
  /\ \E e \in 1..Len(events) :
       /\ events[e].live
       /\ events' = [events EXCEPT ![e] = DeletedEvent]
  /\ edits' = edits + 1
  /\ log' = Idle
  /\ UNCHANGED <<retry, book, source, ledger, nextId, timezone, failed>>

\* what a run leaves for the properties to read: the state it started from,
\* the classes the filter gave, the provider calls, the rows written
RunLog(m, F, afterRun, pre) ==
  [op |-> "run", afterRun |-> afterRun, quiet |-> F = {}, pre |-> pre,
   courses |-> m.courses, class |-> m.class, sel |-> m.sel, calls |-> m.calls,
   written |-> m.written, cancelled |-> m.cancelled, results |-> m.results]

RunWith(F) ==
  \E m \in {processSheet(source, ledger, events, nextId, timezone, F)} :
     /\ m.nextId <= MaxIds + 1
     /\ Len(m.ev) <= MaxEvents
     /\ source' = m.src
     /\ ledger' = m.led
     /\ events' = m.ev
     /\ nextId' = m.nextId
     /\ failed' = failed + Cardinality(F)
     /\ log' = RunLog(m, F, log.op = "run",
                      [source |-> source, ledger |-> ledger, events |-> events,
                       nextId |-> nextId])
     /\ UNCHANGED <<retry, book, timezone, edits>>

Min(a, b) == IF a < b THEN a ELSE b

\* one run of processSheet over the table, with the provider failing at the sites F
Run ==
  \E F \in FailSets(Min(MaxFail - failed, MaxEdits - edits - failed)) : RunWith(F)

\* the tables of at most n rows a user can set up before the first run
RECURSIVE TablesOf(_)
TablesOf(n) ==
  IF n = 0 THEN {<<>>}
  ELSE LET shorter == TablesOf(n - 1)
       IN shorter \cup {Append(t, row) : t \in shorter, row \in NewRows \cup {BlankRow}}

\* a table the user has filled in, a status sheet with its header only
Init ==
  /\ source \in TablesOf(MaxRows)
  /\ ledger = <<>>
  /\ events = <<>>
  /\ nextId = 1
  /\ timezone \in Timezones
  /\ edits = 0
  /\ failed = 0
  /\ log = Idle
  /\ retry = NoRetry
  /\ book = <<>>

Next ==
  \/ InsertRow
  \/ InsertBlankRow
  \/ DeleteRow
  \/ SwapRows
  \/ EditDate
  \/ EditTitle
  \/ ExternalDelete
  \/ Run

Spec == Init /\ [][Next]_vars

\* the table in the timezone of CONFIG and a provider that never fails
InitQuiet == Init /\ timezone = CONFIG_TIMEZONE

RunQuiet == RunWith({})

NextQuiet ==
  \/ InsertRow
  \/ InsertBlankRow
  \/ DeleteRow
  \/ SwapRows
  \/ EditDate
  \/ EditTitle
  \/ ExternalDelete
  \/ RunQuiet

SpecQuiet == InitQuiet /\ [][NextQuiet]_vars

\* a schedule of MaxRows lessons, numbered in order, with no record ids yet
RECURSIVE Schedules(_)
Schedules(n) ==
  IF n = 0 THEN {<<>>}
  ELSE {Append(t, row) : t \in Schedules(n - 1),
                         row \in {r \in NewRows : r.lessonNumber = n}}

\* as SpecQuiet, from a schedule that a first run of processSheet has
\* synchronised and to which the user has then added one row
InitSynced ==
  /\ timezone = CONFIG_TIMEZONE
  /\ \E rows \in Schedules(MaxRows) :
       \E m \in {processSheet(rows, <<>>, <<>>, 1, CONFIG_TIMEZONE, {})} :
          /\ \E p \in 1..(Len(rows) + 1), row \in NewRows \cup {BlankRow} :
               source = InsertAt(m.src, p, row)
          /\ ledger = m.led
          /\ events = m.ev
          /\ nextId = m.nextId
  /\ log = Idle
  /\ edits = 0
  /\ failed = 0
  /\ retry = NoRetry
  /\ book = <<>>

\* the synchronised table may grow by one row
InsertRowSynced == InsertRowUpTo(MaxRows + 1)

InsertBlankRowSynced == InsertBlankRowUpTo(MaxRows + 1)

NextSynced ==
  \/ InsertRowSynced
  \/ InsertBlankRowSynced
  \/ DeleteRow
  \/ SwapRows
  \/ EditDate
  \/ EditTitle
  \/ ExternalDelete
  \/ RunQuiet

SpecSynced == InitSynced /\ [][NextSynced]_vars

\* a synchronised schedule from which the user has removed a row, and runs in
\* which the provider may fail at one call site more than in Spec
InitRemoved ==
  /\ timezone = CONFIG_TIMEZONE
  /\ \E rows \in Schedules(Cardinality(Lessons)) :
       \E m \in {processSheet(rows, <<>>, <<>>, 1, CONFIG_TIMEZONE, {})} :
          /\ \E p \in 1..Len(rows) :
               source = SubSeq(m.src, 1, p - 1) \o SubSeq(m.src, p + 1, Len(m.src))
          /\ ledger = m.led
          /\ events = m.ev
          /\ nextId = m.nextId
  /\ log = Idle
  /\ edits = 0
  /\ failed = 0
  /\ retry = NoRetry
  /\ book = <<>>

RunRemoved ==
  \E F \in FailSets(IF failed <= MaxFail THEN MaxFail + 1 - failed ELSE 0) : RunWith(F)

NextRemoved == RunRemoved \/ DeleteRow

SpecRemoved == InitRemoved /\ [][NextRemoved]_vars

\* the table in the timezone of CONFIG, rows added and removed, and runs in
\* which the provider may fail at one call site more than in Spec, so that both
\* events of a row can fail to be created
NextFailing ==
  \/ InsertRow
  \/ DeleteRow
  \/ RunRemoved

SpecFailing == InitQuiet /\ [][NextFailing]_vars

\* a synchronised schedule in which the user has exchanged two rows, as a sort
\* of the table does; an event can then vanish from a calendar or a title
\* change, and the provider may fail as in SpecRemoved
InitMoved ==
  /\ timezone = CONFIG_TIMEZONE
  /\ \E rows \in Schedules(Cardinality(Lessons)) :
       \E m \in {processSheet(rows, <<>>, <<>>, 1, CONFIG_TIMEZONE, {})} :
          /\ \E p \in 1..Len(rows), q \in 1..Len(rows) :
               /\ p < q
               /\ source = [m.src EXCEPT ![p] = m.src[q], ![q] = m.src[p]]
          /\ ledger = m.led
          /\ events = m.ev
          /\ nextId = m.nextId
  /\ log = Idle
  /\ edits = 0
  /\ failed = 0
  /\ retry = NoRetry
  /\ book = <<>>

NextMoved ==
  \/ ExternalDelete
  \/ EditTitle
  \/ RunRemoved

SpecMoved == InitMoved /\ [][NextMoved]_vars

\* runs over the synchronised schedule of SpecSynced and the row the user added
\* to it, with a provider that may fail as in SpecRemoved
NextSiblings == RunRemoved

SpecSiblings == InitSynced /\ [][NextSiblings]_vars

\* a status text in one event id cell of a row of the sheet, or in both
Corrupted(sheet) ==
  UNION {{[sheet EXCEPT ![i].teacherEventId = teacherCell,
                        ![i].studentEventId = studentCell] :
            teacherCell \in invalidStatusTexts \cup {sheet[i].teacherEventId},
            studentCell \in invalidStatusTexts \cup {sheet[i].studentEventId}} :
           i \in 1..Len(sheet)} \ {sheet}

\* a synchronised table whose status sheet carries a status text in an event id
\* cell, as an earlier version of the script left it
InitCorrupted ==
  /\ timezone = CONFIG_TIMEZONE
  /\ \E rows \in Schedules(1) :
       \E m \in {processSheet(rows, <<>>, <<>>, 1, CONFIG_TIMEZONE, {})} :
          /\ source = m.src
          /\ ledger \in Corrupted(m.led)
          /\ events = m.ev
          /\ nextId = m.nextId
  /\ log = Idle
  /\ edits = 0
  /\ failed = 0
  /\ retry = NoRetry
  /\ book = <<>>

NextCorrupted ==
  \/ InsertRow
  \/ DeleteRow
  \/ EditDate
  \/ EditTitle
  \/ RunQuiet

SpecCorrupted == InitCorrupted /\ [][NextCorrupted]_vars

\* the spreadsheet with several configured tables: each is a sheet that exists,
\* with the rows the user has filled in, or a name for which there is no sheet
Tables ==
  {[exists |-> TRUE, source |-> rows, ledger |-> <<>>] : rows \in TablesOf(1)}
    \cup {[exists |-> FALSE, source |-> <<>>, ledger |-> <<>>]}

RECURSIVE BooksOf(_)
BooksOf(n) ==
  IF n = 0 THEN {<<>>}
  ELSE LET shorter == BooksOf(n - 1)
       IN shorter \cup {Append(b, t) : b \in shorter, t \in Tables}

InitMain ==
  /\ book \in BooksOf(MaxTables) \ {<<>>}
  /\ source = <<>>
  /\ ledger = <<>>
  /\ events = <<>>
  /\ nextId = 1
  /\ timezone = CONFIG_TIMEZONE
  /\ edits = 0
  /\ failed = 0
  /\ log = Idle
  /\ retry = NoRetry

Faults == {"none", "store"}

\* one execution of main, the store failing for the tables that faults names
Main ==
  \E faults \in [1..Len(book) -> Faults] :
    \E st \in {main(book, events, nextId, faults)} :
       /\ failed + Cardinality({k \in 1..Len(book) : faults[k] = "store"}) <= MaxFail
       /\ st.nextId <= MaxIds + 1
       /\ Len(st.ev) <= MaxEvents
       /\ book' = st.book
       /\ events' = st.ev
       /\ nextId' = st.nextId
       /\ failed' = failed + Cardinality({k \in 1..Len(book) : faults[k] = "store"})
       /\ log' = [op |-> "main", faults |-> faults,
                  pre |-> [book |-> book, events |-> events, nextId |-> nextId],
                  allResults |-> st.allResults, summary |-> mainSummary(st.allResults)]
       /\ UNCHANGED <<source, ledger, timezone, edits, retry>>

\* the user deletes the row of a table, or empties the table's sheet of that row
RemoveRow ==
  /\ edits < MaxEdits
  /\ \E k \in 1..Len(book) :
       /\ book[k].source # <<>>
       /\ book' = [book EXCEPT ![k].source = <<>>]
  /\ edits' = edits + 1
  /\ log' = Idle
  /\ UNCHANGED <<source, ledger, events, nextId, timezone, failed, retry>>

NextMain == Main \/ RemoveRow

SpecMain == InitMain /\ [][NextMain]_vars

\* one call of a retry loop, followed attempt by attempt: the operation and the
\* answers the provider has in store for it
RetryOps == {"create", "update", "delete"}

InitRetry ==
  /\ retry \in {StartRetry(op, responses) :
                  op \in RetryOps, responses \in [1..MAX_RETRIES -> Responses]}
  /\ source = <<>>
  /\ ledger = <<>>
  /\ events = <<>>
  /\ nextId = 1
  /\ timezone = CONFIG_TIMEZONE
  /\ edits = 0
  /\ failed = 0
  /\ log = Idle
  /\ book = <<>>

RetryAttempt ==
  /\ ~retry.done
  /\ retry' = retryAttempt(retry)
  /\ UNCHANGED <<source, ledger, events, nextId, timezone, edits, failed, log, book>>

NextRetry == RetryAttempt

SpecRetry == InitRetry /\ [][NextRetry]_vars

\* a synchronised row of which the user has changed the title, or below which
\* the user has added a second row, runs in which the provider may fail as in
\* SpecRemoved, and one retry loop followed
\* attempt by attempt, the provider giving it the same answer at every attempt;
\* the script is single-threaded and runs to completion, so a loop that can
\* make its next attempt makes it
InitTerminating ==
  /\ timezone = CONFIG_TIMEZONE
  /\ \E rows \in Schedules(1) :
       \E m \in {processSheet(rows, <<>>, <<>>, 1, CONFIG_TIMEZONE, {})} :
          /\ source \in {[m.src EXCEPT ![1].courseTitle = t] : t \in Titles}
                            \cup {Append(m.src, row) : row \in NewRows}
          /\ ledger = m.led
          /\ events = m.ev
          /\ nextId = m.nextId
  /\ retry \in {StartRetry(op, [k \in 1..MAX_RETRIES |-> answer]) :
                  op \in RetryOps, answer \in Responses}
  /\ log = Idle
  /\ edits = 0
  /\ failed = 0
  /\ book = <<>>

NextTerminating ==
  \/ RetryAttempt
  \/ RunRemoved

SpecTerminating ==
  InitTerminating /\ [][NextTerminating]_vars /\ WF_vars(RetryAttempt)

\* processSheet ended by the platform after n of the selected courses were
\* processed: the loop of line 546 stops there and nothing is returned
RECURSIVE processUpTo(_, _, _, _)
processUpTo(m, F, j, n) ==
  IF j > n \/ j > Len(m.sel) THEN m
  ELSE processUpTo(processCourse(m, F, m.sel[j]), F, j + 1, n)

processSheetAborted(rows, sheet, ev, nid, tz, n) ==
  LET selected(m3) == processUpTo(filterFrom(m3, {}, 1), {}, 1, n)
      synced(m1) == selected(assignRecordIds([m1 EXCEPT !.led = syncStatusSheet(@, Len(m1.courses))],
                                             syncStatusSheet(m1.led, Len(m1.courses))))
  IN synced(cancelDeleted(readSheets(rows, sheet, ev, nid, tz), {}))

\* a run that is ended after some of the selected rows, and not all, were processed
RunAborted ==
  \E n \in 0..MaxRows :
    \E m \in {processSheetAborted(source, ledger, events, nextId, timezone, n)} :
       /\ n < Len(m.sel)
       /\ m.nextId <= MaxIds + 1
       /\ Len(m.ev) <= MaxEvents
       /\ source' = m.src
       /\ ledger' = m.led
       /\ events' = m.ev
       /\ nextId' = m.nextId
       /\ log' = [op |-> "aborted",
                  pre |-> [source |-> source, ledger |-> ledger, events |-> events,
                           nextId |-> nextId],
                  completed |-> {m.results[r].row : r \in 1..Len(m.results)}]
       /\ UNCHANGED <<retry, book, timezone, edits, failed>>

\* the run that follows an aborted run, the table as the aborted run left it
RunResumed ==
  /\ log.op = "aborted"
  /\ \E m \in {processSheet(source, ledger, events, nextId, timezone, {})} :
       /\ m.nextId <= MaxIds + 1
       /\ Len(m.ev) <= MaxEvents
       /\ source' = m.src
       /\ ledger' = m.led
       /\ events' = m.ev
       /\ nextId' = m.nextId
       /\ log' = RunLog(m, {}, FALSE, [source |-> source, ledger |-> ledger,
                                       events |-> events, nextId |-> nextId])
                    @@ [aborted |-> log]
  /\ UNCHANGED <<retry, book, timezone, edits, failed>>

NextInterrupted ==
  \/ InsertRow
  \/ EditTitle
  \/ RunQuiet
  \/ RunAborted
  \/ RunResumed

SpecInterrupted == InitQuiet /\ [][NextInterrupted]_vars

\* ------------------------------------------------------------- properties
Mutating == {"create", "update", "delete", "mail", "cancelmail"}

MutatingCalls(calls) == {c \in 1..Len(calls) : calls[c].op \in Mutating}

\* C1 Idempotence: a run that directly follows a completed run, with no edit
\* of the table and no change of the calendars in between, issues no create,
\* update, delete or email call and leaves every ledger row as it was.
C1_Idempotence ==
  (log.op = "run" /\ log.afterRun)
    => (MutatingCalls(log.calls) = {} /\ ledger = log.pre.ledger)

Calendars == {Config.teacherCalendarId, Config.studentCalendarId}

LiveEvents(recordId, calendarId) ==
  {e \in 1..Len(events) : /\ events[e].live
                          /\ events[e].recordId = recordId
                          /\ events[e].calendarId = calendarId}

EventIdsOf(entry) == {entry.teacherEventId, entry.studentEventId} \ {0}

\* C2 At most one event per row: in every state reached by runs and edits of
\* the table, a table row has at most one live event created for it in each
\* calendar, and no event id stands in the ledger entries of two records.
C2_OneEventPerRow ==
  /\ \A p \in 1..Len(source), calendarId \in Calendars :
        source[p].recordId # 0
          => Cardinality(LiveEvents(source[p].recordId, calendarId)) <= 1
  /\ \A i \in 1..Len(ledger), j \in 1..Len(ledger) :
        (ledger[i].recordId # 0 /\ ledger[j].recordId # 0
           /\ ledger[i].recordId # ledger[j].recordId)
          => EventIdsOf(ledger[i]) \cap EventIdsOf(ledger[j]) = {}

\* C3 Ledger alignment: after every run, each ledger row is blank or holds the
\* recordId of the table row at the same index, and the ledger has no more
\* data rows than the table.
C3_LedgerAligned ==
  log.op = "run"
    => /\ Len(ledger) <= Len(source)
       /\ \A i \in 1..Len(ledger) :
            \/ ledger[i] = BlankEntry
            \/ (i <= Len(source) /\ ledger[i].recordId = source[i].recordId)

SourceIds(rows) == {rows[p].recordId : p \in 1..Len(rows)} \ {0}

\* the records with a ledger entry whose row is no longer in the table
RemovedIds(rows, sheet) ==
  {sheet[i].recordId : i \in 1..Len(sheet)} \ (SourceIds(rows) \cup {0})

CallsOn(calls, op, eventId) ==
  {c \in 1..Len(calls) : calls[c].op = op /\ calls[c].eventId = eventId}

\* C4 Deletion symmetry: a run that finds a ledger entry whose row was removed
\* from the table calls delete on each live event bound to it, leaves no ledger
\* entry with that recordId and no ledger row beyond the rows of the table,
\* and no run creates an event for a recordId that no table row carries.
C4_DeletionSymmetry ==
  log.op = "run"
    => /\ \A r \in RemovedIds(log.pre.source, log.pre.ledger) :
            /\ LET entry == log.pre.ledger[byId(log.pre.ledger, r)]
               IN \A id \in EventIdsOf(entry) :
                    log.pre.events[id].live => CallsOn(log.calls, "delete", id) # {}
            /\ byId(ledger, r) = 0
       /\ RemovedIds(log.pre.source, log.pre.ledger) # {} => Len(ledger) <= Len(source)
       /\ \A c \in 1..Len(log.calls) :
            log.calls[c].op = "create" => log.calls[c].recordId \in SourceIds(source)

BoundEventId(entry, binding) ==
  IF binding = "teacher" THEN entry.teacherEventId ELSE entry.studentEventId

ClassOf(row) == {log.class[c].class : c \in {c \in 1..Len(log.class) : log.class[c].row = row}}

\* the bindings of the course whose ledger entry, before the run, carries the
\* fingerprint of the row as it is and the id of an event that is gone
StaleBindings(course) ==
  LET i == lookupRecord(log.pre.ledger, course)
  IN {b \in Bindings :
        /\ i # 0
        /\ log.pre.ledger[i].token = course.token
        /\ BoundEventId(log.pre.ledger[i], b) # 0
        /\ ~log.pre.events[BoundEventId(log.pre.ledger[i], b)].live}

\* C5 Stale-binding recovery: when the fingerprint of a row is unchanged and an
\* event bound to it is gone from the calendar, a run in which the provider
\* does not fail classifies the row unchanged-stale, processes it, creates a
\* replacement event and the ledger entry of the record holds the new id.
C5_StaleRecovery ==
  (log.op = "run" /\ log.quiet)
    => \A k \in 1..Len(log.courses) : \A b \in StaleBindings(log.courses[k]) :
         LET course == log.courses[k]
             created == {c \in 1..Len(log.calls) :
                           /\ log.calls[c].op = "create" /\ log.calls[c].ok
                           /\ log.calls[c].binding = b
                           /\ log.calls[c].recordId = course.recordId}
         IN /\ ClassOf(course.rowIndex) = {"unchanged-stale"}
            /\ \E j \in 1..Len(log.sel) : log.sel[j] = k
            /\ created # {}
            /\ byId(ledger, course.recordId) # 0
            /\ \E c \in created :
                 BoundEventId(ledger[byId(ledger, course.recordId)], b) = log.calls[c].eventId

Selected == {log.sel[j] : j \in 1..Len(log.sel)}

\* the ledger entry, before the run, of the recordId the row carried before the run
OwnEntry(course) == byId(log.pre.ledger, log.pre.source[course.rowIndex - 1].recordId)

\* the key fields of the course are not those its ledger entry was written for
KeyFieldChanged(course) ==
  OwnEntry(course) # 0 /\ log.pre.ledger[OwnEntry(course)].token # course.token

\* C6 Change detection: when a row has a ledger entry and one of its key fields
\* is no longer what the entry was written for, the fingerprint the Reconciler
\* computes differs from the stored one, the row is classified changed and it
\* is selected for processing in that run.
C6_ChangeDetection ==
  log.op = "run"
    => \A k \in 1..Len(log.courses) :
         KeyFieldChanged(log.courses[k])
           => LET course == log.courses[k]
                  entry == log.pre.ledger[OwnEntry(course)]
              IN /\ calculateCourseToken(course) # entry.token
                 /\ ClassOf(course.rowIndex) = {"changed"}
                 /\ k \in Selected

\* the date of the course is not the date its ledger entry was written for
DateChanged(course) ==
  OwnEntry(course) # 0 /\ log.pre.ledger[OwnEntry(course)].token[1] # course.token[1]

CallsFor(row, ops) ==
  {c \in 1..Len(log.calls) : log.calls[c].row = row /\ log.calls[c].op \in ops}

\* C7 Move in place: when the date of a row with a recordId and a ledger entry
\* changes, a run in which the provider does not fail issues no delete and no
\* create for that row, the record's ledger entry holds the same event ids
\* after the run as before, and its stored fingerprint is the new fingerprint.
C7_MoveInPlace ==
  (log.op = "run" /\ log.quiet)
    => \A k \in 1..Len(log.courses) :
         DateChanged(log.courses[k])
           => LET course == log.courses[k]
                  before == log.pre.ledger[OwnEntry(course)]
                  j == byId(ledger, course.recordId)
              IN /\ CallsFor(course.rowIndex, {"create", "delete"}) = {}
                 /\ j # 0
                 /\ ledger[j].teacherEventId = before.teacherEventId
                 /\ ledger[j].studentEventId = before.studentEventId
                 /\ ledger[j].token = calculateCourseToken(course)

WithoutId(row) == [row EXCEPT !.recordId = 0]

\* C8 Identity stability: a run changes no recordId that a table row already
\* carries, wherever the row stands and whatever it holds; the run moves no
\* row and writes nothing in the table but the recordId of rows that had none.
C8_IdentityStable ==
  log.op = "run"
    => /\ Len(source) = Len(log.pre.source)
       /\ \A p \in 1..Len(source) :
            /\ WithoutId(source[p]) = WithoutId(log.pre.source[p])
            /\ log.pre.source[p].recordId # 0
                 => source[p].recordId = log.pre.source[p].recordId

\* a run over a reordered table: two rows with a recordId had changed places,
\* each stood where the ledger row carries the recordId of the other, and
\* both kept their own
C8_Witness ==
  /\ log.op = "run"
  /\ \E p, q \in 1..Len(source) :
       /\ p # q
       /\ log.pre.source[p].recordId # 0
       /\ log.pre.source[q].recordId # 0
       /\ log.pre.source[p].recordId # log.pre.source[q].recordId
       /\ GetRow(log.pre.ledger, p + 1).recordId = log.pre.source[q].recordId
       /\ GetRow(log.pre.ledger, q + 1).recordId = log.pre.source[p].recordId
       /\ source[p].recordId = log.pre.source[p].recordId
       /\ source[q].recordId = log.pre.source[q].recordId

Created(row, binding) ==
  {c \in 1..Len(log.calls) : /\ log.calls[c].op = "create" /\ log.calls[c].ok
                             /\ log.calls[c].row = row
                             /\ log.calls[c].binding = binding}

\* C9 First run: with an empty ledger and a provider that does not fail, a run
\* gives every valid row without recordId a fresh recordId written in the
\* table row, classifies it new, creates exactly one event in each calendar
\* for it, and leaves at the row's position a ledger entry with that
\* recordId, the current fingerprint, the created event ids and status completed.
C9_FirstRun ==
  (log.op = "run" /\ log.quiet /\ log.pre.ledger = <<>>)
    => \A k \in 1..Len(log.courses) :
         LET course == log.courses[k]
             entry == GetRow(ledger, course.rowIndex)
         IN log.pre.source[course.rowIndex - 1].recordId = 0
              => /\ source[course.rowIndex - 1].recordId >= log.pre.nextId
                 /\ ClassOf(course.rowIndex) = {"new"}
                 /\ \A b \in Bindings : Cardinality(Created(course.rowIndex, b)) = 1
                 /\ entry.recordId = source[course.rowIndex - 1].recordId
                 /\ entry.token = calculateCourseToken(course)
                 /\ \A b \in Bindings :
                      \E c \in Created(course.rowIndex, b) :
                        BoundEventId(entry, b) = log.calls[c].eventId
                 /\ entry.status = STATUS_COMPLETED

\* the binding is present and its calendar operation raised no error
BindingOk(res) == res.eventId # 0 /\ res.error # ERR_EVENT

\* C10 Row status rule: the status processCourse writes for a row is completed
\* exactly when the teacher binding and the student binding are both present
\* and error-free, partial-failure when exactly one is, and failed otherwise.
C10_RowStatus ==
  log.op = "run"
    => \A r \in 1..Len(log.results) :
         LET result == log.results[r]
             teacherOk == BindingOk(result.teacherEmail)
             studentOk == BindingOk(result.studentEmail)
         IN result.status = IF teacherOk /\ studentOk THEN STATUS_COMPLETED
                            ELSE IF teacherOk \/ studentOk THEN STATUS_PARTIAL
                            ELSE STATUS_FAILED
\* the answers whose message holds a rate-limit keyword, whatever the case
Transient == {RateLimitExceeded, TooManyTimes}

Exhausted(ops) ==
  {c \in 1..Len(log.calls) :
     /\ log.calls[c].op \in ops
     /\ ~log.calls[c].ok
     /\ log.calls[c].attempts = MAX_RETRIES
     /\ isRateLimitError([message |-> log.calls[c].error])}

ResultOf(row, binding) ==
  LET r == CHOOSE r \in 1..Len(log.results) : log.results[r].row = row
  IN IF binding = "teacher" THEN log.results[r].teacherEmail ELSE log.results[r].studentEmail

\* C12 Retry exhaustion is final within a run: when the create or the update of
\* the event of one binding of a row has failed MAX_RETRIES times with a
\* rate-limit error, the result of the row carries an error for that binding and
\* the run issues no further mutating provider call for that binding of the row.
C12_ExhaustionFinal ==
  log.op = "run"
    => \A c \in Exhausted({"create", "update"}) :
         /\ ResultOf(log.calls[c].row, log.calls[c].binding).error # ""
         /\ \A d \in (c + 1)..Len(log.calls) :
              ~(/\ log.calls[d].op \in Mutating
                /\ log.calls[d].row = log.calls[c].row
                /\ log.calls[d].binding = log.calls[c].binding)

\* the calls of the run that changed or tried to change the event of a binding of a row
EventCalls(row, binding, ok) ==
  {c \in 1..Len(log.calls) : /\ log.calls[c].op \in {"create", "update"}
                             /\ log.calls[c].row = row
                             /\ log.calls[c].binding = binding
                             /\ log.calls[c].ok = ok}

\* the event id the ledger held for the record before the run, when the event
\* is still in the calendar; 0 when there is none
RecordedBefore(recordId, binding) ==
  LET i == byId(log.pre.ledger, recordId)
      id == IF i = 0 THEN 0 ELSE BoundEventId(log.pre.ledger[i], binding)
  IN IF id # 0 /\ EventFoundAnywhere(log.pre.events, id) THEN id ELSE 0

\* C13 Ledger written after every attempt: for every row processCourse was
\* entered for, the ledger row of the course was overwritten when processCourse
\* ended, with the recordId and the status of the attempt, and for each binding
\* it holds the event id the attempt obtained or, when the create or update
\* failed, the id of the live event recorded for the record before the run.
C13_LedgerAfterAttempt ==
  log.op = "run"
    => \A r \in 1..Len(log.results) :
         LET result == log.results[r]
         IN /\ result.entry.recordId = result.recordId
            /\ result.entry.status = result.status
            /\ \A b \in Bindings :
                 /\ \A c \in EventCalls(result.row, b, TRUE) :
                      BoundEventId(result.entry, b) = log.calls[c].eventId
                 /\ (EventCalls(result.row, b, TRUE) = {}
                       /\ EventCalls(result.row, b, FALSE) # {}
                       /\ RecordedBefore(result.recordId, b) # 0)
                      => BoundEventId(result.entry, b) = RecordedBefore(result.recordId, b)

\* the records the run found deleted: findDeletedRecords over the table and the
\* ledger the run started from
DeletedBefore ==
  findDeletedRecords(readCourseData(log.pre.source), log.pre.ledger)

\* C14 Deletion is best effort: whether the provider deletes the events of a
\* deleted record, fails with a permanent error, gives up after MAX_RETRIES
\* rate-limit errors, or the cancellation email fails, cancelCourse is called
\* for every deleted record in turn and leaves the ledger row of the record
\* blank, and the run goes on to classify every course of the table.
C14_BestEffortDeletion ==
  log.op = "run"
    => /\ Len(log.cancelled) = Len(DeletedBefore)
       /\ \A i \in 1..Len(log.cancelled) :
            /\ log.cancelled[i].recordId = DeletedBefore[i].recordId
            /\ log.cancelled[i].rowIndex = DeletedBefore[i].rowIndex
            /\ log.cancelled[i].entry = BlankEntry
       /\ Len(log.class) = Len(log.courses)

FailedCalls(ops) == {c \in 1..Len(log.calls) : log.calls[c].op \in ops /\ ~log.calls[c].ok}

\* a run that cancelled a record while a delete gave up after MAX_RETRIES
\* rate-limit errors and a cancellation email failed
C14_Witness ==
  /\ log.op = "run"
  /\ log.cancelled # <<>>
  /\ Exhausted({"delete"}) # {}
  /\ FailedCalls({"cancelmail"}) # {}

\* a run that cancelled a record while a delete failed with a permanent error
C14_WitnessPermanent ==
  /\ log.op = "run"
  /\ log.cancelled # <<>>
  /\ FailedCalls({"delete"}) \ Exhausted({"delete"}) # {}

MailFailed(row) ==
  {c \in 1..Len(log.calls) :
     log.calls[c].op = "mail" /\ log.calls[c].row = row /\ ~log.calls[c].ok}

\* C15 Notification failure never blocks the sync state transition: when the
\* email to the teacher or to the student fails for a row while the events of
\* both calendars are created or updated without error, the ledger entry of the
\* row records both event ids and its status is completed.
C15_MailNeverBlocks ==
  log.op = "run"
    => \A r \in 1..Len(log.results) :
         LET result == log.results[r]
         IN (/\ MailFailed(result.row) # {}
             /\ \A b \in Bindings : /\ EventCalls(result.row, b, TRUE) # {}
                                     /\ EventCalls(result.row, b, FALSE) = {})
              => /\ \A b \in Bindings : \A c \in EventCalls(result.row, b, TRUE) :
                      BoundEventId(result.entry, b) = log.calls[c].eventId
                 /\ result.status = STATUS_COMPLETED
                 /\ result.entry.status = STATUS_COMPLETED

FailedTables == {k \in 1..Len(log.pre.book) : ~log.pre.book[k].exists \/ log.faults[k] = "store"}

\* what a run leaves of a table, whatever the ids the run handed out
Outcome(table) ==
  [exists |-> table.exists,
   rows |-> [p \in 1..Len(table.source) |-> WithoutId(table.source[p])],
   entries |-> [i \in 1..Len(table.ledger) |->
                  [lessonNumber |-> table.ledger[i].lessonNumber,
                   date |-> table.ledger[i].date,
                   token |-> table.ledger[i].token,
                   bound |-> {b \in Bindings : BoundEventId(table.ledger[i], b) # 0},
                   status |-> table.ledger[i].status]]]

\* the execution of main from the same state in which table k does not fail
AsIfSucceeded(k) ==
  main([log.pre.book EXCEPT ![k].exists = TRUE], log.pre.events, log.pre.nextId,
       [log.faults EXCEPT ![k] = "none"])

RowErrors(row) ==
  {c \in FailedCalls({"create", "update", "mail"}) : log.calls[c].row = row}

\* every row selected for processing has its result, in the order of selection
AllSelectedProcessed ==
  /\ Len(log.results) = Len(log.sel)
  /\ \A r \in 1..Len(log.results) : log.results[r].row = log.courses[log.sel[r]].rowIndex

\* C17 Row isolation: when a provider call made while processing a selected row
\* raises an error, the run still processes every row selected after it, and
\* the row is reported with status failed.
C17_RowIsolation ==
  log.op = "run"
    => /\ AllSelectedProcessed
       /\ \A r \in 1..Len(log.results) :
            RowErrors(log.results[r].row) # {} => log.results[r].status = STATUS_FAILED

\* the results of the run that report the failed call c: a result of the row or
\* of the record the call was made for, whose status is not completed and is
\* the status the run wrote to the ledger row
Reporting(c) ==
  {r \in 1..Len(log.results) :
     /\ \/ log.results[r].row = log.calls[c].row
        \/ log.results[r].recordId = log.calls[c].recordId
     /\ log.results[r].status \in {STATUS_PARTIAL, STATUS_FAILED}
     /\ log.results[r].entry.status = log.results[r].status}

\* C18 No failure is silently swallowed: every create, update or delete of an
\* event that fails in a run is recorded as a failure in the ledger status of
\* the row it was made for, and the row is counted in the failed count the run
\* returns for the summary.
C18_NoFailureSwallowed ==
  log.op = "run"
    => \A c \in FailedCalls({"create", "update", "delete"}) :
         /\ Reporting(c) # {}
         /\ sheetResult(log).failed >= 1

\* the rows of the table, as the run found it, that readCourseData skips
SkippedRows == {p \in 1..Len(log.pre.source) : ~ValidRow(log.pre.source[p])}

\* the create, update and delete calls of the run for the record of table row p
CallsForRow(p) ==
  {c \in 1..Len(log.calls) :
     /\ log.calls[c].op \in {"create", "update", "delete"}
     /\ log.pre.source[p].recordId # 0
     /\ log.calls[c].recordId = log.pre.source[p].recordId}

\* C19 Data-error rows are excluded from processing: a run makes no create,
\* update or delete provider call for a table row that readCourseData skips,
\* also when the row carries the record id of a ledger entry with bound events.
C19_SkippedRowsUntouched ==
  log.op = "run" => \A p \in SkippedRows : CallsForRow(p) = {}

\* the eight key fields of a course record, as the cells hold them
KeyFields(course) ==
  <<course.date, course.startTime, course.endTime, course.courseTitle,
    course.teacherName, course.teacherEmail, course.studentName, course.studentEmail>>

\* C20 Fingerprint stability: the fingerprint is a function of the eight key
\* fields only: whenever two course records of a run agree on the eight key
\* fields, whatever their row, recordId, lesson number or the attributes the
\* table configuration attaches to them, the fingerprint computed for the one
\* when the table is read equals the fingerprint computed for the other when
\* the rows to process are selected.
C20_FingerprintStability ==
  log.op = "run"
    => \A k, j \in 1..Len(log.courses) :
         KeyFields(log.courses[k]) = KeyFields(log.courses[j])
           => log.courses[k].token = calculateCourseToken(log.courses[j])

\* the courses of the run that the filter of processSheet left unprocessed
Unprocessed == {k \in 1..Len(log.courses) : \A j \in 1..Len(log.sel) : log.sel[j] # k}

\* the entry the ledger held for a course when the run began, 0 when none
EntryBefore(course) == lookupRecord(log.pre.ledger, course)

\* the liveness checks of the run for a binding of a row that were made for the
\* event the entry records and returned true
VerifiedLive(row, binding, eventId) ==
  {c \in 1..Len(log.calls) : /\ log.calls[c].op = "verify"
                             /\ log.calls[c].row = row
                             /\ log.calls[c].binding = binding
                             /\ log.calls[c].eventId = eventId
                             /\ log.calls[c].ok}

\* C21 Liveness check is mandatory before a skip: a row whose ledger entry
\* records at least one event id when the filter reaches the row is left
\* unprocessed only if the liveness check was made in that run for both of its
\* bindings and returned true for both; a check that returns false or throws
\* counts as an absent event and the row is selected.
C21_CheckedBeforeSkip ==
  log.op = "run"
    => \A k \in 1..Len(log.class) :
         LET found == log.class[k].found
         IN (\E b \in Bindings : BoundEventId(found, b) # 0)
              => \/ k \notin Unprocessed
                 \/ \A b \in Bindings :
                      /\ BoundEventId(found, b) # 0
                      /\ VerifiedLive(log.class[k].row, b, BoundEventId(found, b)) # {}

\* a run that skipped a row after both checks returned true, and selected
\* another whose check did not
C21_Witness ==
  /\ log.op = "run"
  /\ \E k \in Unprocessed : log.class[k].class = "unchanged-verified"
  /\ \E k \in 1..Len(log.class) :
       /\ log.class[k].class = "unchanged-stale"
       /\ \E c \in 1..Len(log.calls) : /\ log.calls[c].op = "verify"
                                       /\ log.calls[c].row = log.class[k].row
                                       /\ ~log.calls[c].ok

\* the calls of the run made for a row
CallsOfRow(row) == {c \in 1..Len(log.calls) : log.calls[c].row = row}

\* C22 Retry versus terminal skip: a row whose fingerprint equals the one
\* stored in its ledger entry, while the entry records no event id, is selected
\* for processing, and processCourse is entered for it, exactly when the stored
\* status is not completed; when the status is completed the row is skipped
\* and no provider call is made for it.
C22_RetryOrSkip ==
  log.op = "run"
    => \A k \in 1..Len(log.courses) :
         LET course == log.courses[k]
             i == EntryBefore(course)
             entry == log.pre.ledger[i]
         IN (/\ i # 0
             /\ entry.token = calculateCourseToken(course)
             /\ \A b \in Bindings : BoundEventId(entry, b) = 0)
              => IF entry.status = STATUS_COMPLETED
                 THEN k \in Unprocessed /\ CallsOfRow(course.rowIndex) = {}
                 ELSE /\ k \notin Unprocessed
                      /\ \E r \in 1..Len(log.results) :
                           log.results[r].row = course.rowIndex

\* a run that selected a row for a retry: unchanged fingerprint, no event id
\* recorded, stored status not completed
C22_WitnessRetry ==
  /\ log.op = "run"
  /\ \E c \in 1..Len(log.class) : log.class[c].class = "retry"

\* a run that skipped a row whose entry records no event id and is completed
C22_WitnessSkip ==
  /\ log.op = "run"
  /\ \E c \in 1..Len(log.class) : log.class[c].class = "terminal-skip"

\* the status sheet as assignRecordIds finds it: the deleted records cancelled
\* and the sheet brought to the length of the table
LedgerAtSync ==
  cancelDeleted(readSheets(log.pre.source, log.pre.ledger, log.pre.events,
                           log.pre.nextId, timezone), {}).led

LedgerAtAssign == syncStatusSheet(LedgerAtSync, Len(log.courses))

\* the valid rows of the table that carried no recordId when the run began
Unidentified ==
  {p \in 1..Len(log.pre.source) :
     ValidRow(log.pre.source[p]) /\ log.pre.source[p].recordId = 0}

FromPosition(p) == GetRow(LedgerAtAssign, p + 1).recordId

FromKey(p) ==
  LET i == byKey(LedgerAtAssign, log.pre.source[p].lessonNumber, log.pre.source[p].date)
  IN IF i = 0 THEN 0 ELSE LedgerAtAssign[i].recordId

\* C23 Identity recovery order: a valid source row with an empty recordId gets
\* the recordId of the ledger row at its position if that row has one, otherwise
\* the recordId of the ledger entry with its lessonNumber_date key if there is
\* one, otherwise an id generated in this run and given to no other row; the id
\* is in the source row when the run ends.
C23_RecoveryOrder ==
  log.op = "run"
    => \A p \in Unidentified :
         /\ source[p].recordId # 0
         /\ IF FromPosition(p) # 0 THEN source[p].recordId = FromPosition(p)
            ELSE IF FromKey(p) # 0 THEN source[p].recordId = FromKey(p)
            ELSE /\ source[p].recordId \in log.pre.nextId..(nextId - 1)
                 /\ \A q \in 1..Len(source) : q # p => source[q].recordId # source[p].recordId

\* a run that gave one row the id of the ledger row at its position although
\* an entry with another id has its key, and generated an id for another row
C23_Witness ==
  /\ log.op = "run"
  /\ \E p \in Unidentified :
       /\ FromPosition(p) # 0
       /\ FromKey(p) # 0
       /\ FromKey(p) # FromPosition(p)
       /\ source[p].recordId = FromPosition(p)

\* a run that took the id of a row from the entry with its key, the ledger row
\* at its position having none
C23_WitnessKey ==
  /\ log.op = "run"
  /\ \E p \in Unidentified : FromPosition(p) = 0 /\ FromKey(p) # 0

\* a run that generated the id of a row
C23_WitnessNew ==
  /\ log.op = "run"
  /\ \E p \in Unidentified : FromPosition(p) = 0 /\ FromKey(p) = 0

\* C24 sync(targetRowCount): after syncStatusSheet(statusSheet, n) the ledger
\* has n data rows below the header and nothing below them; the first
\* min(old, n) data rows are the rows it had, the rows added below a shorter
\* ledger are blank, and rows are removed, from the end, only from a longer one.
C24_SyncFrame ==
  log.op = "run"
    => /\ Len(LedgerAtAssign) <= Len(log.courses)
       /\ \A i \in 1..Len(log.courses) :
            GetRow(LedgerAtAssign, i + 1)
              = IF i <= Len(LedgerAtSync) THEN LedgerAtSync[i] ELSE BlankEntry
       /\ Len(LedgerAtSync) <= Len(log.courses) => LedgerAtAssign = LedgerAtSync

\* a run whose ledger was longer than the table: an entry below the last
\* course was removed and an entry above it was kept
C24_Witness ==
  /\ log.op = "run"
  /\ Len(log.courses) >= 1
  /\ Len(LedgerAtSync) > Len(log.courses)
  /\ LedgerAtSync[1] # BlankEntry
  /\ Len(LedgerAtAssign) = Len(log.courses)

\* a run whose ledger was shorter than the table
C24_WitnessShorter ==
  /\ log.op = "run"
  /\ Len(LedgerAtSync) >= 1
  /\ Len(LedgerAtSync) < Len(log.courses)

\* the entries the ledger held for record id when the run began
OwnEntries(id) ==
  {i \in 1..Len(log.pre.ledger) : id # 0 /\ log.pre.ledger[i].recordId = id}

\* C25 Full-row overwrite without stale-field leakage: in the entry that
\* updateStatusRecord writes for record R at its row, the recordId is R's and
\* each event id is the id the attempt returned for the binding or the id of
\* that binding in an entry R had when the run began, or is empty; it is never
\* the event id of a different record that occupied the row.
C25_NoStaleFields ==
  log.op = "run"
    => \A r \in 1..Len(log.results) :
         LET res == log.results[r]
         IN /\ res.entry.recordId = res.recordId
            /\ res.entry.teacherEventId
                 \in {0, res.teacherEmail.eventId}
                     \cup {log.pre.ledger[i].teacherEventId : i \in OwnEntries(res.recordId)}
            /\ res.entry.studentEventId
                 \in {0, res.studentEmail.eventId}
                     \cup {log.pre.ledger[i].studentEventId : i \in OwnEntries(res.recordId)}

\* C26 Corruption guard: when an event id cell of the ledger holds a status
\* text, the record the filter finds carries that binding empty, no liveness
\* check, update or delete of the run is made with the text as event id, and
\* no entry that updateStatusRecord writes carries the text in an event id field.
C26_CorruptionGuard ==
  log.op = "run"
    => /\ \A k \in 1..Len(log.class) :
            /\ log.class[k].found.teacherEventId \notin invalidStatusTexts
            /\ log.class[k].found.studentEventId \notin invalidStatusTexts
       /\ \A c \in 1..Len(log.calls) : log.calls[c].eventId \notin invalidStatusTexts
       /\ \A r \in 1..Len(log.results) :
            /\ log.results[r].entry.teacherEventId \notin invalidStatusTexts
            /\ log.results[r].entry.studentEventId \notin invalidStatusTexts

\* the ledger entries, as the filter finds them, with the lesson number of the
\* course and another date
Siblings(course) ==
  {i \in 1..Len(LedgerAtAssign) :
     /\ LedgerAtAssign[i].lessonNumber = course.lessonNumber
     /\ LedgerAtAssign[i].date # 0
     /\ FormatDay(LedgerAtAssign[i].date, timezone) # FormatDay(course.date, timezone)}

\* the deletions of an event of the entry made while the table row was processed
TornDown(entry, row) ==
  {c \in 1..Len(log.calls) :
     /\ log.calls[c].op = "delete"
     /\ log.calls[c].ok
     /\ log.calls[c].row = row
     /\ log.calls[c].eventId \in {entry.teacherEventId, entry.studentEventId} \ {0}}

\* the recordId of the entry belongs to no row of the table
Stale(entry) == \A p \in 1..Len(source) : source[p].recordId # entry.recordId

\* C27 Move versus replace: when a row is processed and the ledger holds an
\* entry with its lesson number and another date, no event of the entry is
\* deleted when the entry has the recordId of the row, and when it has another
\* recordId its events are deleted only if that recordId belongs to no source row.
C27_MoveVersusReplace ==
  log.op = "run"
    => \A j \in 1..Len(log.sel) :
         LET course == log.courses[log.sel[j]]
         IN \A i \in Siblings(course) :
              TornDown(LedgerAtAssign[i], course.rowIndex) # {}
                => /\ LedgerAtAssign[i].recordId # course.recordId
                   /\ Stale(LedgerAtAssign[i])

\* the ledger rows the run wrote, and those it tore down as superseded siblings
WrittenRows == {log.written[w] : w \in 1..Len(log.written)}

SiblingRows ==
  UNION {{log.courses[k].oldRecords[j].rowIndex : j \in 1..Len(log.courses[k].oldRecords)} :
           k \in {log.sel[j] : j \in 1..Len(log.sel)}}

SameRecord(a, b) ==
  a.recordId = b.recordId /\ a.lessonNumber = b.lessonNumber /\ a.date = b.date

\* C28 Entries are cleared, not removed: after the trailing-row trim of
\* syncStatusSheet no ledger row is physically removed in the run, so an entry
\* the run neither tears down nor overwrites is at the row where it was, and the
\* row of a superseded sibling that is not overwritten is blank.
C28_ClearedInPlace ==
  log.op = "run"
    => \A i \in 1..Len(LedgerAtAssign) :
         (Listed(LedgerAtAssign[i]) /\ (i + 1) \notin WrittenRows)
           => IF (i + 1) \in SiblingRows
              THEN GetRow(ledger, i + 1) = BlankEntry
              ELSE SameRecord(GetRow(ledger, i + 1), LedgerAtAssign[i])

\* the data rows of a status sheet that carry the recordId of the course, and
\* those that carry its lessonNumber_date key
IdRows(sheet, course) ==
  {i \in 1..Len(sheet) :
     Listed(sheet[i]) /\ course.recordId # 0 /\ sheet[i].recordId = course.recordId}

KeyRows(sheet, course) ==
  {i \in 1..Len(sheet) :
     /\ Listed(sheet[i])
     /\ sheet[i].lessonNumber = course.lessonNumber
     /\ sheet[i].date = course.date}

\* the rows an identity-first lookup may answer with
MatchRows(sheet, course) ==
  IF IdRows(sheet, course) # {} THEN IdRows(sheet, course) ELSE KeyRows(sheet, course)

CourseAt(row) == CHOOSE c \in {log.courses[k] : k \in 1..Len(log.courses)} : c.rowIndex = row

\* C29 Identity-first matching: the record the filter of processSheet finds
\* for a course, and the record getExistingEventIds answers from, is an entry
\* with the recordId of the course when the ledger has one, and an entry with
\* its lessonNumber_date key only when it has none; the filter classifies a
\* course New, and getExistingEventIds answers empty, only when both fail.
C29_IdentityFirst ==
  log.op = "run"
    => /\ \A k \in 1..Len(log.class) :
            LET rows == MatchRows(log.pre.ledger, log.courses[k])
            IN IF rows = {} THEN log.class[k].class = "new"
               ELSE /\ log.class[k].class # "new"
                    /\ \E i \in rows : SameRecord(log.class[k].found, log.pre.ledger[i])
       /\ \A r \in 1..Len(log.results) :
            LET x == log.results[r].existing
                rows == MatchRows(x.sheet, CourseAt(log.results[r].row))
            IN IF rows = {}
               THEN x.teacherEventId = 0 /\ x.studentEventId = 0 /\ x.hasChanges
               ELSE \E i \in rows :
                      /\ x.teacherEventId = validEventId(x.sheet[i].teacherEventId)
                      /\ x.studentEventId = validEventId(x.sheet[i].studentEventId)
                      /\ x.token = x.sheet[i].token

\* a run that processed a course whose recordId one ledger entry carried and
\* whose lessonNumber_date key another entry carried
C29_Witness ==
  /\ log.op = "run"
  /\ \E r \in 1..Len(log.results) :
       LET course == CourseAt(log.results[r].row)
       IN /\ IdRows(log.pre.ledger, course) # {}
          /\ KeyRows(log.pre.ledger, course) \ IdRows(log.pre.ledger, course) # {}
          /\ IdRows(log.results[r].existing.sheet, course) # {}
          /\ KeyRows(log.results[r].existing.sheet, course)
               \ IdRows(log.results[r].existing.sheet, course) # {}

\* the attempts of the calls in S, added up
RECURSIVE Attempts(_)
Attempts(S) ==
  IF S = {} THEN 0
  ELSE LET c == CHOOSE x \in S : TRUE IN log.calls[c].attempts + Attempts(S \ {c})

\* the updates and creations of the run for one binding of a course
BindingCalls(course, binding) ==
  {c \in 1..Len(log.calls) : /\ log.calls[c].op \in {"create", "update"}
                             /\ log.calls[c].row = course.rowIndex
                             /\ log.calls[c].binding = binding}

\* the deletions of the run for the superseded siblings of a course
SiblingCalls(course) ==
  {c \in 1..Len(log.calls) :
     /\ log.calls[c].op = "delete"
     /\ log.calls[c].row = course.rowIndex
     /\ \E j \in 1..Len(course.oldRecords) :
          log.calls[c].eventId \in {course.oldRecords[j].teacherEventId,
                                    course.oldRecords[j].studentEventId}}

AttemptsBounded ==
  \A k \in 1..Len(log.courses) :
     /\ \A b \in Bindings : Attempts(BindingCalls(log.courses[k], b)) <= 2 * MAX_RETRIES
     /\ Attempts(SiblingCalls(log.courses[k]))
          <= 2 * MAX_RETRIES * Len(log.courses[k].oldRecords)

\* C30 Termination: every retry loop ends, whatever the provider answers, and
\* a run ends with a result for every row it selected, having made for each row
\* at most MAX_RETRIES attempts to update and MAX_RETRIES attempts to create the
\* event of each binding, and at most MAX_RETRIES attempts to delete each of
\* the two events of each superseded sibling.
C30_Termination ==
  /\ <>retry.done
  /\ [](log.op = "run" => (AllSelectedProcessed /\ AttemptsBounded))

\* a run that exhausted the attempts to update and to create the event of one
\* binding of a row
C30_Witness ==
  /\ log.op = "run"
  /\ \E k \in 1..Len(log.courses), b \in Bindings :
       Attempts(BindingCalls(log.courses[k], b)) = 2 * MAX_RETRIES

\* a run that deleted the events of a superseded sibling, and a retry loop that
\* ended after MAX_RETRIES attempts
C30_WitnessSibling ==
  /\ log.op = "run"
  /\ \E k \in 1..Len(log.courses) : Attempts(SiblingCalls(log.courses[k])) >= 2
  /\ retry.done
  /\ retry.attempt = MAX_RETRIES

\* the run of processSheet over the table as it was before the aborted run
Uninterrupted ==
  processSheet(log.aborted.pre.source, log.aborted.pre.ledger, log.aborted.pre.events,
               log.aborted.pre.nextId, timezone, {})

Resumed == log.op = "run" /\ "aborted" \in DOMAIN log

\* C31 Re-entrant run after an interruption: the run that follows an aborted
\* run over the same table makes no create, update, delete or email call for
\* a row whose ledger entry the aborted run wrote as completed, and ends in the
\* ledger and the events in which an uninterrupted run would have ended.
C31_Reentrant ==
  Resumed
    => /\ \A c \in MutatingCalls(log.calls) : log.calls[c].row \notin log.aborted.completed
       /\ ledger = Uninterrupted.led
       /\ events = Uninterrupted.ev

\* the ledger entries, as the run found them, that an event is bound to
BoundTo(eventId) ==
  {i \in 1..Len(log.pre.ledger) : eventId \in EventIdsOf(log.pre.ledger[i])}

\* C32 No tear-down of a present row: a run issues a delete call for an event
\* only if the record the event is bound to in the ledger has no row in the
\* table; the events of a record that is still in the table are not deleted,
\* also when a row with its lesson number and another date is added.
C32_NoTearDownOfPresent ==
  log.op = "run"
    => \A c \in 1..Len(log.calls) :
         log.calls[c].op = "delete"
           => \A i \in BoundTo(log.calls[c].eventId) :
                log.pre.ledger[i].recordId \notin SourceIds(source)

\* no two rows of the table carry the same recordId
UniqueIds(rows) ==
  \A p, q \in 1..Len(rows) :
     (p # q /\ rows[p].recordId # 0) => rows[p].recordId # rows[q].recordId

\* C33 Record identifiers are unique: after a run over a table in which no two
\* rows carried the same recordId, no two rows carry the same recordId, also
\* when a row with an empty recordId was inserted above rows that have a
\* ledger entry.
C33_UniqueIds ==
  (log.op = "run" /\ UniqueIds(log.pre.source)) => UniqueIds(source)

\* the positions of the status sheet that syncStatusSheet removes
Trimmed == (Len(log.courses) + 1)..Len(LedgerAtSync)

\* C34 The trim loses nothing: every ledger row that syncStatusSheet removes
\* is blank or is the entry of a record that has no row in the table; the
\* entry of a row still in the table is never removed, also when a row above
\* it was deleted from the table.
C34_TrimLosesNothing ==
  log.op = "run"
    => \A i \in Trimmed :
         \/ LedgerAtSync[i] = BlankEntry
         \/ LedgerAtSync[i].recordId \notin SourceIds(log.pre.source) \cup {0}

\* the bindings of the course whose ledger entry, before the run, records a
\* live event that does not carry the date and title of the row: the update of
\* the event to the row as it is has not been done
Outdated(course) ==
  LET i == EntryBefore(course)
  IN {b \in Bindings :
        /\ i # 0
        /\ validEventId(BoundEventId(log.pre.ledger[i], b)) # 0
        /\ LET e == log.pre.events[BoundEventId(log.pre.ledger[i], b)]
           IN /\ e.live
              /\ e.recordId = course.recordId
              /\ (e.date # course.date \/ e.courseTitle # course.courseTitle)}

\* C35 A failed update is retried: a row whose bound event still carries the
\* old key fields, because the update and the fallback creation failed in the
\* run before, is not classified unchanged-verified: it is selected again and
\* the update of the event is attempted again.
C35_FailedUpdateRetried ==
  log.op = "run"
    => \A k \in 1..Len(log.courses) : \A b \in Outdated(log.courses[k]) :
         LET course == log.courses[k]
             eventId == BoundEventId(log.pre.ledger[EntryBefore(course)], b)
         IN /\ "unchanged-verified" \notin ClassOf(course.rowIndex)
            /\ k \in Selected
            /\ \E c \in CallsFor(course.rowIndex, {"update"}) :
                 log.calls[c].eventId = eventId

\* C36 Ledger writes stay inside the synced ledger: every row of the status
\* sheet that updateStatusRecord writes in a run has a row index of at most
\* courses.length + 1, also when the table has blank or invalid rows above
\* valid rows.
C36_WritesInsideLedger ==
  log.op = "run" => \A row \in WrittenRows : row <= Len(log.courses) + 1

\* the row had no ledger entry when the run began, or an entry whose stored
\* fingerprint is not the fingerprint of the row
NewOrChanged(course) ==
  \/ EntryBefore(course) = 0
  \/ log.pre.ledger[EntryBefore(course)].token # course.token

\* C37 Notification emails follow changes only: for every row processCourse
\* was entered for, the course emails are sent if and only if the row has no
\* ledger entry or the stored fingerprint differs from the fingerprint of the
\* row; a row processed as retry or unchanged-stale sends no email.
C37_EmailsFollowChanges ==
  log.op = "run"
    => \A k \in Selected :
         LET course == log.courses[k]
         IN /\ (CallsFor(course.rowIndex, {"mail"}) # {}) <=> NewOrChanged(course)
            /\ ClassOf(course.rowIndex) \cap {"retry", "unchanged-stale"} # {}
                 => CallsFor(course.rowIndex, {"mail"}) = {}

\* the liveness checks of the run for a binding of a row that returned false
\* or threw
VerifiedGone(row, binding) ==
  {c \in 1..Len(log.calls) : /\ log.calls[c].op = "verify"
                             /\ log.calls[c].row = row
                             /\ log.calls[c].binding = binding
                             /\ ~log.calls[c].ok}

\* the bindings of the course that passed the liveness check of the run while
\* the other binding failed it, the stored fingerprint being that of the row
LiveBesideStale(course) ==
  LET i == EntryBefore(course)
  IN {b \in Bindings :
        /\ i # 0
        /\ log.pre.ledger[i].token = course.token
        /\ VerifiedLive(course.rowIndex, b, BoundEventId(log.pre.ledger[i], b)) # {}
        /\ \E other \in Bindings \ {b} : VerifiedGone(course.rowIndex, other) # {}}

\* C38 Stale recreation leaves the live binding alone: when the fingerprint of
\* a row is unchanged, one binding fails the liveness check and the other
\* passes it, the run issues no create, update or delete for the binding that
\* passed, no update or delete for its event, and the ledger entry of the
\* record holds the same event id for that binding after the run.
C38_LiveBindingAlone ==
  log.op = "run"
    => \A k \in 1..Len(log.courses) : \A b \in LiveBesideStale(log.courses[k]) :
         LET course == log.courses[k]
             eventId == BoundEventId(log.pre.ledger[EntryBefore(course)], b)
         IN /\ \A c \in CallsFor(course.rowIndex, {"create", "update", "delete"}) :
                 log.calls[c].binding # b
            /\ \A c \in 1..Len(log.calls) :
                 log.calls[c].op \in {"update", "delete"} => log.calls[c].eventId # eventId
            /\ byId(ledger, course.recordId) # 0
            /\ BoundEventId(ledger[byId(ledger, course.recordId)], b) = eventId

\* C39 The two change verdicts agree: for every row of a run, in every
\* configured timezone, the comparison of the stored fingerprint with the
\* fingerprint the filter of processSheet computes and the comparison with the
\* fingerprint getExistingEventIds uses give the same verdict, and the
\* fingerprint updateStatusRecord writes for a row is the one the filter of the
\* next run computes for the unchanged row.
C39_VerdictsAgree ==
  log.op = "run"
    => /\ \A k \in 1..Len(log.courses) :
            LET course == log.courses[k]
                i == EntryBefore(course)
            IN i # 0 => ((calculateCourseToken(course) # log.pre.ledger[i].token)
                           <=> (course.token # log.pre.ledger[i].token))
       /\ \A r \in 1..Len(log.results) :
            log.results[r].entry.token = calculateCourseToken(CourseAt(log.results[r].row))
====
